---- MODULE Spec2Model ----
(***************************************************************************)
(* Harmonic analysis engine of e-harmony-backend (MusicTheoryEngine).      *)
(*                                                                         *)
(* Python strings are modelled as sequences of one-character strings, so   *)
(* that the regular expression of parse_chord, str.strip, str.lower,       *)
(* str.upper, str.replace and the substring tests of the quality           *)
(* classifier are computed character by character.  Enum members are       *)
(* modelled by their .value strings.                                       *)
(***************************************************************************)
EXTENDS Integers, Sequences, FiniteSets, TLC

VARIABLES
    chromatic_notes,     \* MusicTheoryEngine.chromatic_notes
    harmonic_functions,  \* MusicTheoryEngine.harmonic_functions
    modes,               \* MusicTheoryEngine.modes
    chord_symbol,        \* argument of parse_chord
    chord_symbols,       \* argument of analyze_chord_progression / validate_voice_leading
    chord_obj,           \* argument of _get_roman_numeral: a Chord
    key,                 \* argument key
    position,            \* argument position of _get_chord_substitutions
    total_chords,        \* argument total_chords of _get_chord_substitutions
    message,             \* argument message of process_chat_message
    user_level,          \* argument user_level of suggest_exercises_for_level
    exercise_type,       \* argument exercise_type of correct_exercise
    user_answer,         \* argument user_answer of correct_exercise
    exercise_data,       \* argument exercise_data of correct_exercise
    level,               \* argument level of correct_exercise
    op,                  \* the operation that produced result
    result               \* what the operation returned or raised

\* the engine's tables and the arguments of a call
args == <<chromatic_notes, harmonic_functions, modes, chord_symbol, chord_symbols, chord_obj,
          key, position, total_chords, message, user_level, exercise_type, user_answer,
          exercise_data, level>>

vars == <<args, op, result>>

-----------------------------------------------------------------------------
(* Python values *)

\* Python None in a str-typed field (no character sequence equals it)
None == <<"None">>

\* Python None in an enum-typed field
NoFunction == "None"

\* Python None in a dict-typed argument (dicts are records)
NoData == [is_none |-> TRUE]

\* a normal return
Return(v) == [ok |-> TRUE, value |-> v]

\* ValueError raised by parse_chord: f"Chord symbol inválido: {chord_symbol}"
InvalidChordSymbol == [ok |-> FALSE, type |-> "ValueError", msg |-> "Chord symbol invalido"]

\* ValueError raised by list.index(x) when x is not in the list
NotInList == [ok |-> FALSE, type |-> "ValueError", msg |-> "is not in list"]

-----------------------------------------------------------------------------
(* str methods *)

UpperChars == <<"A","B","C","D","E","F","G","H","I","J","K","L","M",
                "N","O","P","Q","R","S","T","U","V","W","X","Y","Z">>

LowerChars == <<"a","b","c","d","e","f","g","h","i","j","k","l","m",
                "n","o","p","q","r","s","t","u","v","w","x","y","z">>

LowerChar(c) ==
    IF \E i \in 1..Len(UpperChars) : UpperChars[i] = c
    THEN LowerChars[CHOOSE i \in 1..Len(UpperChars) : UpperChars[i] = c]
    ELSE c

UpperChar(c) ==
    IF \E i \in 1..Len(LowerChars) : LowerChars[i] = c
    THEN UpperChars[CHOOSE i \in 1..Len(LowerChars) : LowerChars[i] = c]
    ELSE c

\* str.lower()
Lower(s) == [i \in 1..Len(s) |-> LowerChar(s[i])]

\* str.upper()
Upper(s) == [i \in 1..Len(s) |-> UpperChar(s[i])]

\* sub in s
Contains(s, sub) ==
    \E i \in 1..(Len(s) - Len(sub) + 1) : SubSeq(s, i, i + Len(sub) - 1) = sub

\* s.replace(c, '') for a one-character c
RemoveChar(s, c) == SelectSeq(s, LAMBDA x : x # c)

IsSpace(c) == c \in {" ", "\t", "\n"}

\* str.strip()
Strip(s) ==
    IF \A i \in 1..Len(s) : IsSpace(s[i]) THEN <<>>
    ELSE LET first == CHOOSE i \in 1..Len(s) :
                          /\ ~IsSpace(s[i])
                          /\ \A j \in 1..(i - 1) : IsSpace(s[j])
             last  == CHOOSE i \in 1..Len(s) :
                          /\ ~IsSpace(s[i])
                          /\ \A j \in (i + 1)..Len(s) : IsSpace(s[j])
         IN  SubSeq(s, first, last)

\* list.index(x): the first position (0-based) of x, or ValueError
Index(list, x) ==
    IF \E i \in 1..Len(list) : list[i] = x
    THEN Return((CHOOSE i \in 1..Len(list) :
                    list[i] = x /\ \A j \in 1..(i - 1) : list[j] # x) - 1)
    ELSE NotInList

-----------------------------------------------------------------------------
(* parse_chord *)

\* [A-G]
IsNoteLetter(c) == c \in {"A", "B", "C", "D", "E", "F", "G"}

\* [#b]
IsAccidental(c) == c \in {"#", "b"}

\* the root pattern without its accidental: [A-G]
NoteLen_LetterOnly(s) == IF Len(s) >= 1 /\ IsNoteLetter(s[1]) THEN 1 ELSE 0

\* length of the longest prefix of s that matches [A-G][#b]? (0: no match)
NoteLen(s) ==
    IF Len(s) >= 1 /\ IsNoteLetter(s[1])
    THEN IF Len(s) >= 2 /\ IsAccidental(s[2]) THEN 2 ELSE 1
    ELSE 0

\* the pattern without its final $: whatever follows the root, or the slash
\* bass, is left unmatched
ChordPatternMatch_Unanchored(s) ==
    LET n    == NoteLen(s)
        tail == SubSeq(s, n + 2, Len(s))
    IN  IF n = 0 THEN [matched |-> FALSE]
        ELSE IF Len(s) > n /\ s[n + 1] = "/" /\ NoteLen(tail) >= 1
        THEN [matched |-> TRUE, g1 |-> SubSeq(s, 1, n), g2 |-> <<>>,
              g3 |-> SubSeq(tail, 1, NoteLen(tail))]
        ELSE [matched |-> TRUE, g1 |-> SubSeq(s, 1, n), g2 |-> <<>>, g3 |-> None]

\* re.match(r'^([A-G][#b]?)([^/]*?)(?:/([A-G][#b]?))?$', s): the three groups,
\* or matched = FALSE
ChordPatternMatch(s) ==
    LET n    == NoteLen(s)
        rest == SubSeq(s, n + 1, Len(s))
    IN  IF n = 0 THEN [matched |-> FALSE]
        ELSE IF ~\E i \in 1..Len(rest) : rest[i] = "/"
        THEN [matched |-> TRUE, g1 |-> SubSeq(s, 1, n), g2 |-> rest, g3 |-> None]
        ELSE LET p    == CHOOSE i \in 1..Len(rest) :
                             rest[i] = "/" /\ \A j \in 1..(i - 1) : rest[j] # "/"
                 tail == SubSeq(rest, p + 1, Len(rest))
             IN  IF NoteLen(tail) >= 1 /\ NoteLen(tail) = Len(tail)
                 THEN [matched |-> TRUE, g1 |-> SubSeq(s, 1, n),
                       g2 |-> SubSeq(rest, 1, p - 1), g3 |-> tail]
                 ELSE [matched |-> FALSE]

\* the tests with bare minor moved up, before the major seventh
DetermineChordQuality_MinorBeforeMajor7(quality_str) ==
    LET q == Lower(quality_str)
    IN  IF Contains(q, <<"m", "7">>) THEN "minor7"
        ELSE IF Contains(q, <<"m">>) THEN "minor"
        ELSE IF Contains(q, <<"m", "a", "j", "7">>) \/ Contains(q, <<"M", "7">>)
        THEN "major7"
        ELSE IF Contains(q, <<"7">>) THEN "dominant7"
        ELSE IF Contains(q, <<"d", "i", "m">>) THEN "diminished"
        ELSE IF Contains(q, <<"a", "u", "g">>) \/ Contains(q, <<"+">>) THEN "augmented"
        ELSE IF Contains(q, <<"s", "u", "s", "4">>) THEN "suspended4"
        ELSE IF Contains(q, <<"s", "u", "s", "2">>) THEN "suspended2"
        ELSE "major"

\* the tests with bare minor first, before the minor seventh
DetermineChordQuality_MinorFirst(quality_str) ==
    LET q == Lower(quality_str)
    IN  IF Contains(q, <<"m">>) THEN "minor"
        ELSE IF Contains(q, <<"m", "7">>) THEN "minor7"
        ELSE IF Contains(q, <<"m", "a", "j", "7">>) \/ Contains(q, <<"M", "7">>)
        THEN "major7"
        ELSE IF Contains(q, <<"7">>) THEN "dominant7"
        ELSE IF Contains(q, <<"d", "i", "m">>) THEN "diminished"
        ELSE IF Contains(q, <<"a", "u", "g">>) \/ Contains(q, <<"+">>) THEN "augmented"
        ELSE IF Contains(q, <<"s", "u", "s", "4">>) THEN "suspended4"
        ELSE IF Contains(q, <<"s", "u", "s", "2">>) THEN "suspended2"
        ELSE "major"

\* MusicTheoryEngine._determine_chord_quality: the first test that succeeds, on the
\* lower-cased suffix
DetermineChordQuality(quality_str) ==
    LET q == Lower(quality_str)
    IN  IF Contains(q, <<"m", "7">>) THEN "minor7"
        ELSE IF Contains(q, <<"m", "a", "j", "7">>) \/ Contains(q, <<"M", "7">>)
        THEN "major7"
        ELSE IF Contains(q, <<"7">>) THEN "dominant7"
        ELSE IF Contains(q, <<"m">>) THEN "minor"
        ELSE IF Contains(q, <<"d", "i", "m">>) THEN "diminished"
        ELSE IF Contains(q, <<"a", "u", "g">>) \/ Contains(q, <<"+">>) THEN "augmented"
        ELSE IF Contains(q, <<"s", "u", "s", "4">>) THEN "suspended4"
        ELSE IF Contains(q, <<"s", "u", "s", "2">>) THEN "suspended2"
        ELSE "major"

\* the alternatives of tension_pattern r'(9|11|13|#11|b13)', in order
TensionAlternatives ==
    << <<"9">>, <<"1", "1">>, <<"1", "3">>, <<"#", "1", "1">>, <<"b", "1", "3">> >>

\* s has t at position i (1-based)
HasAt(s, i, t) == i + Len(t) - 1 <= Len(s) /\ SubSeq(s, i, i + Len(t) - 1) = t

\* re.findall(tension_pattern, s) from position i on: leftmost, first
\* alternative that matches, non-overlapping
RECURSIVE FindTensions(_, _)
FindTensions(s, i) ==
    IF i > Len(s) THEN <<>>
    ELSE IF \E a \in 1..Len(TensionAlternatives) : HasAt(s, i, TensionAlternatives[a])
    THEN LET a == CHOOSE a \in 1..Len(TensionAlternatives) :
                      /\ HasAt(s, i, TensionAlternatives[a])
                      /\ \A b \in 1..(a - 1) : ~HasAt(s, i, TensionAlternatives[b])
             t == TensionAlternatives[a]
         IN  <<t>> \o FindTensions(s, i + Len(t))
    ELSE FindTensions(s, i + 1)

\* every digit of the suffix collected as a tension
ParseExtensions_Digits(quality_str) ==
    [i \in 1..Len(SelectSeq(quality_str, LAMBDA c : c \in {"1", "2", "3", "4", "6", "7", "9"}))
        |-> <<SelectSeq(quality_str,
                        LAMBDA c : c \in {"1", "2", "3", "4", "6", "7", "9"})[i]>>]

\* MusicTheoryEngine._parse_extensions
ParseExtensions(quality_str) == FindTensions(quality_str, 1)

\* the dataclass Chord
Chord(root, quality, extensions, bass) ==
    [root |-> root, quality |-> quality, extensions |-> extensions, bass |-> bass,
     function |-> NoFunction, roman_numeral |-> None]

\* MusicTheoryEngine.parse_chord
parse_chord(symbol) ==
    LET match == ChordPatternMatch(Strip(symbol))
    IN  IF ~match.matched THEN InvalidChordSymbol
        ELSE Return(Chord(match.g1,
                          DetermineChordQuality(match.g2),
                          ParseExtensions(match.g2),
                          match.g3))

-----------------------------------------------------------------------------
(* harmonic function resolution *)

\* roman_map of _get_roman_numeral
roman_map ==
    (0 :> <<"I">>) @@ (2 :> <<"I", "I">>) @@ (4 :> <<"I", "I", "I">>) @@
    (5 :> <<"I", "V">>) @@ (7 :> <<"V">>) @@ (9 :> <<"V", "I">>) @@
    (11 :> <<"V", "I", "I">>)

\* the numeral for roots outside roman_map
FallbackRoman == <<"b", "I", "I">>

\* the diminished mark, the one character U+00B0 (str.lower and str.upper
\* leave it as it is)
Degree == "deg"

\* the adjustment with minor7 left out of the lower-case qualities
AdjustRoman_MinorOnly(base_roman, quality) ==
    IF quality = "minor" THEN Lower(base_roman)
    ELSE IF quality = "diminished" THEN Lower(base_roman) \o <<Degree>>
    ELSE base_roman

\* the case and mark adjustment of _get_roman_numeral
AdjustRoman(base_roman, quality) ==
    IF quality \in {"minor", "minor7"} THEN Lower(base_roman)
    ELSE IF quality = "diminished" THEN Lower(base_roman) \o <<Degree>>
    ELSE base_roman

\* KeyError raised by roman_map[interval]
KeyError == [ok |-> FALSE, type |-> "KeyError", msg |-> "interval"]

\* _get_roman_numeral with roman_map[interval] in place of roman_map.get
get_roman_numeral_NoFallback(chord, k) ==
    LET key_index == Index(chromatic_notes, k)
    IN  IF ~key_index.ok THEN key_index
        ELSE LET chord_index == Index(chromatic_notes, chord.root)
             IN  IF ~chord_index.ok THEN chord_index
                 ELSE LET interval == (chord_index.value - key_index.value) % 12
                      IN  IF interval \in DOMAIN roman_map
                          THEN Return(AdjustRoman(roman_map[interval], chord.quality))
                          ELSE KeyError

\* MusicTheoryEngine._get_roman_numeral
get_roman_numeral(chord, k) ==
    LET key_index == Index(chromatic_notes, k)
    IN  IF ~key_index.ok THEN key_index
        ELSE LET chord_index == Index(chromatic_notes, chord.root)
             IN  IF ~chord_index.ok THEN chord_index
                 ELSE LET interval   == (chord_index.value - key_index.value) % 12
                          base_roman == IF interval \in DOMAIN roman_map
                                        THEN roman_map[interval]
                                        ELSE FallbackRoman
                      IN  Return(AdjustRoman(base_roman, chord.quality))

\* MusicTheoryEngine._determine_function
determine_function(roman_numeral) ==
    LET base_roman == Upper(RemoveChar(roman_numeral, Degree))
    IN  IF base_roman \in DOMAIN harmonic_functions
        THEN harmonic_functions[base_roman]
        ELSE "sub"

\* MusicTheoryEngine._get_available_tensions
get_available_tensions(chord) ==
    CASE chord.quality = "major7" -> << <<"9">>, <<"1", "1">>, <<"1", "3">> >>
      [] chord.quality = "minor7" -> << <<"9">>, <<"1", "1">>, <<"1", "3">> >>
      [] chord.quality = "dominant7" ->
             << <<"9">>, <<"1", "1">>, <<"1", "3">>, <<"b", "1", "3">>, <<"#", "1", "1">> >>
      [] chord.quality = "half_diminished" -> << <<"9">>, <<"1", "1">>, <<"b", "1", "3">> >>
      [] OTHER -> <<>>

\* the scale table read without its fallback: scale_recommendations.get(quality, [])
recommend_scales_NoFallback(chord) ==
    CASE chord.quality = "major7" -> <<"ionian", "lydian">>
      [] chord.quality = "minor7" -> <<"dorian", "aeolian">>
      [] chord.quality = "dominant7" -> <<"mixolydian", "altered">>
      [] chord.quality = "half_diminished" -> <<"locrian">>
      [] OTHER -> <<>>

\* MusicTheoryEngine._recommend_scales
recommend_scales(chord) ==
    CASE chord.quality = "major7" -> <<"ionian", "lydian">>
      [] chord.quality = "minor7" -> <<"dorian", "aeolian">>
      [] chord.quality = "dominant7" -> <<"mixolydian", "altered">>
      [] chord.quality = "half_diminished" -> <<"locrian">>
      [] OTHER -> <<"chromatic">>

-----------------------------------------------------------------------------
(* progression analysis *)

\* one entry of the list analyze_chord_progression returns
AnalysisEntry(symbol, chord, roman_numeral, function) ==
    [chord_symbol       |-> symbol,
     chord              |-> [chord EXCEPT !.roman_numeral = roman_numeral,
                                          !.function = function],
     roman_numeral      |-> roman_numeral,
     function           |-> function,
     tensions_available |-> get_available_tensions(chord),
     scales_recommended |-> recommend_scales(chord)]

\* the loop with analysis.insert(0, ...) in place of analysis.append
RECURSIVE AnalyzeFrom_Prepend(_, _, _, _)
AnalyzeFrom_Prepend(symbols, k, i, analysis) ==
    IF i > Len(symbols) THEN Return(analysis)
    ELSE LET parsed == parse_chord(symbols[i])
         IN  IF ~parsed.ok THEN parsed
             ELSE LET roman == get_roman_numeral(parsed.value, k)
                  IN  IF ~roman.ok THEN roman
                      ELSE AnalyzeFrom_Prepend(symbols, k, i + 1,
                               <<AnalysisEntry(symbols[i], parsed.value, roman.value,
                                               determine_function(roman.value))>>
                               \o analysis)

\* the loop of analyze_chord_progression, with the numeral of the first chord
\* carried over to the chords that follow it
RECURSIVE AnalyzeFrom_Carry(_, _, _, _)
AnalyzeFrom_Carry(symbols, k, i, analysis) ==
    IF i > Len(symbols) THEN Return(analysis)
    ELSE LET parsed == parse_chord(symbols[i])
         IN  IF ~parsed.ok THEN parsed
             ELSE LET roman == get_roman_numeral(parsed.value, k)
                  IN  IF ~roman.ok THEN roman
                      ELSE AnalyzeFrom_Carry(symbols, k, i + 1,
                               Append(analysis,
                                      AnalysisEntry(symbols[i], parsed.value,
                                                    IF analysis = <<>> THEN roman.value
                                                    ELSE analysis[1].roman_numeral,
                                                    determine_function(roman.value))))

\* the loop of analyze_chord_progression from element i on; an exception
\* raised in the body leaves the function
RECURSIVE AnalyzeFrom(_, _, _, _)
AnalyzeFrom(symbols, k, i, analysis) ==
    IF i > Len(symbols) THEN Return(analysis)
    ELSE LET parsed == parse_chord(symbols[i])
         IN  IF ~parsed.ok THEN parsed
             ELSE LET roman == get_roman_numeral(parsed.value, k)
                  IN  IF ~roman.ok THEN roman
                      ELSE AnalyzeFrom(symbols, k, i + 1,
                               Append(analysis,
                                      AnalysisEntry(symbols[i], parsed.value, roman.value,
                                                    determine_function(roman.value))))

\* MusicTheoryEngine.analyze_chord_progression
analyze_chord_progression(symbols, k) == AnalyzeFrom(symbols, k, 1, <<>>)

\* abs()
Abs(n) == IF n < 0 THEN -n ELSE n

\* the widest root movement validate_voice_leading lets pass
MaxRootMovement == 6

\* the test with >= in place of >
TooWide_FromTritone(current_root, next_root) ==
    Abs(next_root - current_root) >= MaxRootMovement

\* the test of validate_voice_leading on the two root indexes
TooWide(current_root, next_root) == Abs(next_root - current_root) > MaxRootMovement

\* the loop of validate_voice_leading from pair i on (1-based: elements i, i + 1)
RECURSIVE ValidateFrom(_, _, _)
ValidateFrom(progression, i, issues) ==
    IF i > Len(progression) - 1
    THEN Return([is_valid    |-> Len(issues) = 0,
                 issues      |-> issues,
                 suggestions |-> [j \in 1..Len(issues) |-> "Considere usar inversao"]])
    ELSE LET current    == parse_chord(progression[i])
             next_chord == parse_chord(progression[i + 1])
         IN  IF ~current.ok THEN current
             ELSE IF ~next_chord.ok THEN next_chord
             ELSE LET current_root == Index(chromatic_notes, current.value.root)
                      next_root    == Index(chromatic_notes, next_chord.value.root)
                  IN  IF ~current_root.ok THEN current_root
                      ELSE IF ~next_root.ok THEN next_root
                      ELSE ValidateFrom(progression, i + 1,
                               IF TooWide(current_root.value, next_root.value)
                               THEN Append(issues, <<progression[i], progression[i + 1]>>)
                               ELSE issues)

\* MusicTheoryEngine.validate_voice_leading
validate_voice_leading(progression) == ValidateFrom(progression, 1, <<>>)

\* MusicTheoryEngine.suggest_chord_substitutions
suggest_chord_substitutions(chord, k) ==
    IF chord.quality = "dominant7"
    THEN LET root_index == Index(chromatic_notes, chord.root)
         IN  IF ~root_index.ok THEN root_index
             ELSE Return(<< chromatic_notes[((root_index.value + 6) % 12) + 1] \o <<"7">> >>)
    ELSE IF chord.function = "T" /\ chord.quality = "major"
    THEN Return(<< chord.root \o <<"6">>, chord.root \o <<"m", "a", "j", "9">> >>)
    ELSE Return(<<>>)

-----------------------------------------------------------------------------
(* ReharmonizationService *)

\* the rest of a function body after a call: it runs on the value the call
\* returned, and an exception the call raised leaves the function
Then(called, Rest(_)) == IF called.ok THEN Rest(called.value) ELSE called

\* the rest of a function body after an assignment: it runs on the value
\* assigned
With(value, Rest(_)) == Rest(value)

\* an f-string: its fixed text and the value formatted into it
Explanation(text, name) == [text |-> text, names |-> name]

\* chromatic_notes[i % 12] of the code (lists are indexed from 0 there)
NoteAt(i) == chromatic_notes[(i % 12) + 1]

\* the tritone root taken a fifth above
get_tritone_substitution_Fifth(chord) ==
    Then(Index(chromatic_notes, chord.root),
         LAMBDA root_index : Return(NoteAt(root_index + 7) \o <<"7">>))

\* the tritone root taken a fourth above
get_tritone_substitution_Fourth(chord) ==
    Then(Index(chromatic_notes, chord.root),
         LAMBDA root_index : Return(NoteAt(root_index + 5) \o <<"7">>))

\* ReharmonizationService._get_tritone_substitution
get_tritone_substitution(chord) ==
    Then(Index(chromatic_notes, chord.root),
         LAMBDA root_index : Return(NoteAt(root_index + 6) \o <<"7">>))

\* ReharmonizationService._get_modal_borrowing_options
get_modal_borrowing_options(chord, k) ==
    IF chord.quality = "major"
    THEN << [chord            |-> chord.root \o <<"m">>,
             type             |-> "modal_borrowing",
             explanation      |-> Explanation("Emprestimo do modo menor de", k),
             volume_reference |-> "Ian Guest Vol. 2 p.10-25"] >>
    ELSE <<>>

\* ReharmonizationService._get_secondary_dominant_options
get_secondary_dominant_options(chord, k) ==
    IF chord.quality \in {"major", "minor"}
    THEN Then(Index(chromatic_notes, chord.root),
              LAMBDA root_index :
                  Return(<< [chord            |-> NoteAt(root_index + 7) \o <<"7">>,
                             type             |-> "secondary_dominant",
                             explanation      |-> Explanation("Dominante secundario que resolve em",
                                                              chord.root),
                             volume_reference |-> "Ian Guest Vol. 2 p.26-45"] >>))
    ELSE Return(<<>>)

\* the first block of _get_chord_substitutions: the tritone substitute of a
\* dominant-seventh chord
TritoneSubstitutions(chord) ==
    IF chord.quality = "dominant7"
    THEN Then(get_tritone_substitution(chord),
              LAMBDA tritone_sub :
                  Return(<< [chord            |-> tritone_sub,
                             type             |-> "tritone_substitution",
                             explanation      |-> Explanation("Substituto tritonal", <<>>),
                             volume_reference |-> "Ian Guest Vol. 2 p.46-60"] >>))
    ELSE Return(<<>>)

\* the last block of _get_chord_substitutions: the secondary dominants of a
\* chord that is not the last one; pos counts from 0
SecondaryDominants(chord, k, pos, total) ==
    IF pos < total - 1 THEN get_secondary_dominant_options(chord, k) ELSE Return(<<>>)

\* ReharmonizationService._get_chord_substitutions
get_chord_substitutions(chord, k, style, pos, total) ==
    Then(TritoneSubstitutions(chord),
         LAMBDA substitutions :
             Then(SecondaryDominants(chord, k, pos, total),
                  LAMBDA secondary_dom :
                      Return(substitutions \o get_modal_borrowing_options(chord, k)
                                           \o secondary_dom)))

\* ReharmonizationService._get_guest_approach_for_function
get_guest_approach_for_function(function) ==
    CASE function = "T" -> "Funcao tonica - centro de repouso"
      [] function = "D" -> "Funcao dominante - tensao que pede resolucao"
      [] function = "S" -> "Funcao subdominante - preparacao"
      [] OTHER -> "Analise a funcao harmonica antes de substituir"

\* ReharmonizationService._get_guest_theory_explanation
get_guest_theory_explanation(chord_data, style) ==
    [function_analysis |-> chord_data.function,
     guest_approach    |-> get_guest_approach_for_function(chord_data.function),
     practice_tips     |-> <<"Pratique a progressao original primeiro",
                             "Adicione substituicoes uma por vez",
                             "Ouca o efeito de cada substituicao">>]

\* one element of tritone_version: the tritone substitute of a dominant-seventh
\* chord, the symbol itself otherwise
TritoneVersionOf(symbol, parsed) ==
    IF parsed.quality = "dominant7" THEN get_tritone_substitution(parsed) ELSE Return(symbol)

\* the loop of _generate_complete_alternatives that builds tritone_version
RECURSIVE TritoneVersionFrom(_, _, _)
TritoneVersionFrom(symbols, i, tritone_version) ==
    IF i > Len(symbols) THEN Return(tritone_version)
    ELSE Then(parse_chord(symbols[i]),
              LAMBDA parsed :
                  Then(TritoneVersionOf(symbols[i], parsed),
                       LAMBDA element :
                           TritoneVersionFrom(symbols, i + 1,
                                              Append(tritone_version, element))))

\* what _add_secondary_dominants puts in its result for a chord that has a
\* next chord
WithSecondaryDominant(symbol, next_chord) ==
    IF next_chord.quality \in {"major", "minor"}
    THEN Then(Index(chromatic_notes, next_chord.root),
              LAMBDA root_index : Return(<<symbol, NoteAt(root_index + 7) \o <<"7">> >>))
    ELSE Return(<<symbol>>)

\* the loop of _add_secondary_dominants from element i on
RECURSIVE AddSecondaryDominantsFrom(_, _, _)
AddSecondaryDominantsFrom(symbols, i, res) ==
    IF i > Len(symbols) THEN Return(res)
    ELSE IF i < Len(symbols)
    THEN Then(parse_chord(symbols[i + 1]),
              LAMBDA next_chord :
                  Then(WithSecondaryDominant(symbols[i], next_chord),
                       LAMBDA added :
                           AddSecondaryDominantsFrom(symbols, i + 1, res \o added)))
    ELSE AddSecondaryDominantsFrom(symbols, i + 1, Append(res, symbols[i]))

\* ReharmonizationService._add_secondary_dominants
add_secondary_dominants(symbols, k) == AddSecondaryDominantsFrom(symbols, 1, <<>>)

\* an entry of complete_alternatives, present when the version differs from
\* the progression
Alternative(name, version, symbols, style, difficulty) ==
    IF version # symbols
    THEN << [name |-> name, progression |-> version, style |-> style,
             difficulty |-> difficulty] >>
    ELSE <<>>

\* ReharmonizationService._generate_complete_alternatives
generate_complete_alternatives(symbols, k, style) ==
    Then(TritoneVersionFrom(symbols, 1, <<>>),
         LAMBDA tritone_version :
             Then(add_secondary_dominants(symbols, k),
                  LAMBDA secondary_version :
                      Return(Alternative("Versao com Substitutos Tritonais", tritone_version,
                                         symbols, "jazz_sophisticated", "intermediario")
                             \o
                             Alternative("Versao com Dominantes Secundarios", secondary_version,
                                         symbols, "jazz_traditional", "intermediario"))))

\* the suggestion of suggest_reharmonizations for the chord at index i (from
\* 1), present when the chord has substitutions
Suggestion(chord_data, symbols, style, i, chord_suggestions) ==
    IF chord_suggestions # <<>>
    THEN << [position       |-> i - 1,
             original_chord |-> symbols[i],
             substitutions  |-> chord_suggestions,
             guest_theory   |-> get_guest_theory_explanation(chord_data, style)] >>
    ELSE <<>>

\* the loop of suggest_reharmonizations over original_analysis
RECURSIVE SuggestionsFrom(_, _, _, _, _, _)
SuggestionsFrom(original_analysis, symbols, k, style, i, suggestions) ==
    IF i > Len(original_analysis) THEN Return(suggestions)
    ELSE Then(get_chord_substitutions(original_analysis[i].chord, k, style,
                                      i - 1, Len(symbols)),
              LAMBDA chord_suggestions :
                  SuggestionsFrom(original_analysis, symbols, k, style, i + 1,
                                  suggestions \o Suggestion(original_analysis[i], symbols,
                                                            style, i, chord_suggestions)))

\* ReharmonizationService.suggest_reharmonizations
suggest_reharmonizations(symbols, k, style) ==
    Then(analyze_chord_progression(symbols, k),
         LAMBDA original_analysis :
             Then(SuggestionsFrom(original_analysis, symbols, k, style, 1, <<>>),
                  LAMBDA suggestions :
                      Then(generate_complete_alternatives(symbols, k, style),
                           LAMBDA complete_alternatives :
                               Return([original_progression        |-> symbols,
                                       key                         |-> k,
                                       style                       |-> style,
                                       reharmonization_suggestions |-> suggestions,
                                       complete_alternatives       |-> complete_alternatives]))))

-----------------------------------------------------------------------------
(* ImprovisationConsultantService *)

\* the default of modes.get(mode, [0, 2, 4, 5, 7, 9, 11])
DefaultIntervals == <<0, 2, 4, 5, 7, 9, 11>>

\* modes.get(mode, [0, 2, 4, 5, 7, 9, 11])
ModeIntervals(mode) == IF mode \in DOMAIN modes THEN modes[mode] ELSE DefaultIntervals

\* ImprovisationConsultantService._get_scale_notes
get_scale_notes(root, mode) ==
    Then(Index(chromatic_notes, root),
         LAMBDA root_index :
             Return([n \in 1..Len(ModeIntervals(mode)) |->
                        NoteAt(root_index + ModeIntervals(mode)[n])]))

\* ImprovisationConsultantService._get_avoid_notes
get_avoid_notes(chord) ==
    IF chord.quality = "major7"
    THEN Then(Index(chromatic_notes, chord.root),
              LAMBDA root_index : Return(<<NoteAt(root_index + 5)>>))
    ELSE Return(<<>>)

\* the members of ChordQuality whose value contains "7"
SeventhQualities == {"dominant7", "major7", "minor7", "diminished7"}

\* the third _get_strong_notes adds
StrongThird(chord, root_index) ==
    IF chord.quality \in {"major", "major7"} THEN <<NoteAt(root_index + 4)>>
    ELSE IF chord.quality \in {"minor", "minor7"} THEN <<NoteAt(root_index + 3)>>
    ELSE <<>>

\* the seventh _get_strong_notes adds
StrongSeventh(chord, root_index) ==
    IF chord.quality \in SeventhQualities
    THEN IF chord.quality = "major7"
         THEN <<NoteAt(root_index + 11)>>
         ELSE <<NoteAt(root_index + 10)>>
    ELSE <<>>

\* ImprovisationConsultantService._get_strong_notes
get_strong_notes(chord) ==
    Then(Index(chromatic_notes, chord.root),
         LAMBDA root_index :
             Return(<<chord.root>> \o StrongThird(chord, root_index)
                                   \o StrongSeventh(chord, root_index)))

\* scales[0] if scales else "chromatic"
PrimaryScale(scales) == IF scales # <<>> THEN scales[1] ELSE "chromatic"

\* scales[1:] if len(scales) > 1 else []
AlternativeScales(scales) == IF Len(scales) > 1 THEN SubSeq(scales, 2, Len(scales)) ELSE <<>>

\* the chord_mapping of _map_chord_to_scales for one analysed chord
ChordMapping(chord_data) ==
    Then(get_scale_notes(chord_data.chord.root, PrimaryScale(chord_data.scales_recommended)),
         LAMBDA scale_notes :
             Then(get_avoid_notes(chord_data.chord),
                  LAMBDA avoid_notes :
                      Then(get_strong_notes(chord_data.chord),
                           LAMBDA strong_notes :
                               Return([chord              |-> chord_data.chord_symbol,
                                       primary_scale      |->
                                           PrimaryScale(chord_data.scales_recommended),
                                       alternative_scales |->
                                           AlternativeScales(chord_data.scales_recommended),
                                       scale_notes        |-> scale_notes,
                                       avoid_notes        |-> avoid_notes,
                                       strong_notes       |-> strong_notes]))))

\* the loop of _map_chord_to_scales from element i on
RECURSIVE MapChordToScalesFrom(_, _, _)
MapChordToScalesFrom(analysis, i, mapping) ==
    IF i > Len(analysis) THEN Return(mapping)
    ELSE Then(ChordMapping(analysis[i]),
              LAMBDA chord_mapping :
                  MapChordToScalesFrom(analysis, i + 1, Append(mapping, chord_mapping)))

\* ImprovisationConsultantService._map_chord_to_scales
map_chord_to_scales(analysis) == MapChordToScalesFrom(analysis, 1, <<>>)

\* ImprovisationConsultantService._get_diatonic_approaches
get_diatonic_approaches(target_note) ==
    Then(Index(chromatic_notes, target_note),
         LAMBDA target_index : Return(<<NoteAt(target_index - 2), NoteAt(target_index + 2)>>))

\* the loop of _get_approach_notes from element i on
RECURSIVE ApproachNotesFrom(_, _, _)
ApproachNotesFrom(target_notes, i, approaches) ==
    IF i > Len(target_notes) THEN Return(approaches)
    ELSE Then(Index(chromatic_notes, target_notes[i]),
              LAMBDA target_index :
                  Then(get_diatonic_approaches(target_notes[i]),
                       LAMBDA diatonic :
                           ApproachNotesFrom(target_notes, i + 1,
                               Append(approaches,
                                      [target              |-> target_notes[i],
                                       chromatic_below     |-> NoteAt(target_index - 1),
                                       chromatic_above     |-> NoteAt(target_index + 1),
                                       diatonic_approaches |-> diatonic]))))

\* ImprovisationConsultantService._get_approach_notes
get_approach_notes(target_notes) == ApproachNotesFrom(target_notes, 1, <<>>)

\* ImprovisationConsultantService._get_resolution_notes; i counts from 1
get_resolution_notes(analysis, i) ==
    IF i < Len(analysis) THEN get_strong_notes(analysis[i + 1].chord) ELSE Return(<<>>)

\* the target_info of _identify_target_notes for the chord at index i
TargetInfo(analysis, i) ==
    Then(get_strong_notes(analysis[i].chord),
         LAMBDA strong_notes :
             Then(get_approach_notes(strong_notes),
                  LAMBDA approach_notes :
                      Then(get_resolution_notes(analysis, i),
                           LAMBDA resolution_notes :
                               Return([chord            |-> analysis[i].chord_symbol,
                                       primary_targets  |-> Tail(strong_notes),
                                       approach_notes   |-> approach_notes,
                                       resolution_notes |-> resolution_notes]))))

\* the loop of _identify_target_notes from element i on
RECURSIVE TargetNotesFrom(_, _, _)
TargetNotesFrom(analysis, i, targets) ==
    IF i > Len(analysis) THEN Return(targets)
    ELSE Then(TargetInfo(analysis, i),
              LAMBDA target_info :
                  TargetNotesFrom(analysis, i + 1, Append(targets, target_info)))

\* ImprovisationConsultantService._identify_target_notes
identify_target_notes(analysis) == TargetNotesFrom(analysis, 1, <<>>)

\* ImprovisationConsultantService._detect_ii_v_i
detect_ii_v_i(analysis) ==
    /\ Len(analysis) >= 3
    /\ \E i \in 1..(Len(analysis) - 2) :
           <<analysis[i].function, analysis[i + 1].function, analysis[i + 2].function>>
               = <<"S", "D", "T">>

\* ImprovisationConsultantService._detect_modal_context: more than 0.3 of the
\* chords have the function "sub"
detect_modal_context(analysis) ==
    10 * Cardinality({i \in 1..Len(analysis) : analysis[i].function = "sub"})
        > 3 * Len(analysis)

\* ImprovisationConsultantService._suggest_approach_strategies (the names of
\* the strategies; their texts are fixed)
suggest_approach_strategies(analysis) ==
    (IF detect_ii_v_i(analysis) THEN <<"ii-V-I Licks">> ELSE <<>>)
    \o (IF detect_modal_context(analysis) THEN <<"Abordagem Modal">> ELSE <<>>)
    \o <<"Chord Tones">>

\* ImprovisationConsultantService._generate_practice_exercises (the names of
\* the exercises; their texts are fixed)
generate_practice_exercises(analysis) ==
    <<"Arpejos dos Acordes", "Conexao de Target Notes", "Pratica de Escalas">>

\* ImprovisationConsultantService._apply_guest_methodology (the keys of the
\* fixed dictionary)
apply_guest_methodology(analysis) ==
    <<"pedagogical_approach", "guest_principles", "volume_references">>

\* ImprovisationConsultantService.get_improvisation_guide
get_improvisation_guide(symbols, k) ==
    Then(analyze_chord_progression(symbols, k),
         LAMBDA analysis :
             Then(map_chord_to_scales(analysis),
                  LAMBDA chord_scale_mapping :
                      Then(identify_target_notes(analysis),
                           LAMBDA target_notes :
                               Return([progression         |-> symbols,
                                       key                 |-> k,
                                       chord_scale_mapping |-> chord_scale_mapping,
                                       target_notes        |-> target_notes,
                                       approach_strategies |->
                                           suggest_approach_strategies(analysis),
                                       practice_exercises  |->
                                           generate_practice_exercises(analysis),
                                       guest_methodology   |->
                                           apply_guest_methodology(analysis)]))))

-----------------------------------------------------------------------------
(* HarmonyAnalyzerService *)

\* AttributeError raised by the lookup of a method the class does not define
NoAttribute(name) == [ok |-> FALSE, type |-> "AttributeError", msg |-> name]

\* the characters of ChordQuality.value
QualityValueText ==
    ("major" :> <<"m", "a", "j", "o", "r">>) @@
    ("minor" :> <<"m", "i", "n", "o", "r">>) @@
    ("diminished" :> <<"d", "i", "m", "i", "n", "i", "s", "h", "e", "d">>) @@
    ("augmented" :> <<"a", "u", "g", "m", "e", "n", "t", "e", "d">>) @@
    ("dominant7" :> <<"d", "o", "m", "i", "n", "a", "n", "t", "7">>) @@
    ("major7" :> <<"m", "a", "j", "o", "r", "7">>) @@
    ("minor7" :> <<"m", "i", "n", "o", "r", "7">>) @@
    ("half_diminished" :>
        <<"h", "a", "l", "f", "_", "d", "i", "m", "i", "n", "i", "s", "h", "e", "d">>) @@
    ("diminished7" :> <<"d", "i", "m", "i", "n", "i", "s", "h", "e", "d", "7">>) @@
    ("suspended4" :> <<"s", "u", "s", "p", "e", "n", "d", "e", "d", "4">>) @@
    ("suspended2" :> <<"s", "u", "s", "p", "e", "n", "d", "e", "d", "2">>)

\* f"{chord.root}{chord.quality.value}"
RootAndQuality(chord) == chord.root \o QualityValueText[chord.quality]

\* intervals_map.get(chord.quality.value, [4, 7]) of _get_chord_notes
ChordIntervals(quality) ==
    CASE quality = "major" -> <<4, 7>>
      [] quality = "minor" -> <<3, 7>>
      [] quality = "diminished" -> <<3, 6>>
      [] quality = "augmented" -> <<4, 8>>
      [] quality = "major7" -> <<4, 7, 11>>
      [] quality = "minor7" -> <<3, 7, 10>>
      [] quality = "dominant7" -> <<4, 7, 10>>
      [] quality = "half_diminished" -> <<3, 6, 10>>
      [] quality = "diminished7" -> <<3, 6, 9>>
      [] OTHER -> <<4, 7>>

\* HarmonyAnalyzerService._get_chord_notes
get_chord_notes(chord) ==
    Then(Index(chromatic_notes, chord.root), LAMBDA root_index :
         Return(<<chord.root>> \o
                [j \in 1..Len(ChordIntervals(chord.quality)) |->
                    NoteAt(root_index + ChordIntervals(chord.quality)[j])]))

\* HarmonyAnalyzerService._get_inversions: inversion i has the bass notes[i]
get_inversions(chord) ==
    Then(get_chord_notes(chord), LAMBDA notes :
         Return([i \in 1..Len(notes) |->
                    IF i = 1 THEN RootAndQuality(chord)
                    ELSE RootAndQuality(chord) \o <<"/">> \o notes[i]]))

\* HarmonyAnalyzerService._get_volume_reference
get_volume_reference(chord) ==
    IF chord.quality \in {"major", "minor", "diminished"}
    THEN "Volume 1 - Acordes Triade (p. 41-55)"
    ELSE IF Contains(QualityValueText[chord.quality], <<"7">>)
    THEN "Volume 1 - Acordes de Setima (p. 71-85)"
    ELSE IF chord.function = "sub"
    THEN "Volume 2 - Substitutos (p. 46-60)"
    ELSE "Volume 1 - Conceitos Fundamentais"

\* HarmonyAnalyzerService._get_practice_order
get_practice_order(chord) ==
    <<"1. Aprenda a triade basica", "2. Pratique as inversoes", "3. Adicione a setima",
      "4. Experimente tensoes">>
    \o (IF chord.quality = "dominant7"
        THEN <<"5. Pratique resolucoes em diferentes tonalidades">>
        ELSE <<>>)

\* HarmonyAnalyzerService._get_common_mistakes
get_common_mistakes(chord) ==
    CASE chord.quality = "major7" ->
             <<"Confundir com acorde dominante", "Usar 11a natural (choque com 3a maior)">>
      [] chord.quality = "minor7" ->
             <<"Tocar muito pesado", "Nao explorar a 11a natural">>
      [] OTHER -> <<>>

\* HarmonyAnalyzerService._get_musical_examples
get_musical_examples(chord) ==
    CASE chord.quality = "major7" -> <<"Girl from Ipanema", "Corcovado">>
      [] chord.quality = "minor7" -> <<"So What", "Autumn Leaves">>
      [] chord.quality = "dominant7" -> <<"Blue Bossa", "All Blues">>
      [] OTHER -> <<"Pratique em standards de jazz">>

\* HarmonyAnalyzerService._get_guest_pedagogy_for_chord
get_guest_pedagogy_for_chord(chord) ==
    [volume_reference |-> get_volume_reference(chord),
     practice_order   |-> get_practice_order(chord),
     common_mistakes  |-> get_common_mistakes(chord),
     musical_examples |-> get_musical_examples(chord)]

\* HarmonyAnalyzerService._get_practice_suggestions
get_practice_suggestions(chord) ==
    <<Explanation("Pratique em todas as inversoes", RootAndQuality(chord)),
      "Toque em diferentes ritmos (bossa nova, jazz, pop)",
      "Combine com outros acordes da mesma familia",
      "Improvise melodias usando as tensoes disponiveis">>

\* HarmonyAnalyzerService.get_chord_detail
get_chord_detail(symbol, k) ==
    Then(parse_chord(symbol), LAMBDA chord :
    Then(get_chord_notes(chord), LAMBDA notes :
    Then(get_inversions(chord), LAMBDA inversions :
         Return([chord_symbol       |-> symbol,
                 parsed_chord       |-> chord,
                 notes              |-> notes,
                 inversions         |-> inversions,
                 available_tensions |-> get_available_tensions(chord),
                 recommended_scales |-> recommend_scales(chord),
                 guest_pedagogy     |-> get_guest_pedagogy_for_chord(chord),
                 practice_suggestions |-> get_practice_suggestions(chord)]))))

\* HarmonyAnalyzerService._get_pedagogical_approach
get_pedagogical_approach(chord) ==
    CASE chord.quality = "major" ->
             "Comece com triade, depois adicione setima maior para jazz/bossa nova"
      [] chord.quality = "minor" ->
             "Base: 3a menor. Experimente com setima menor para cor jazzistica"
      [] chord.quality = "dominant7" ->
             "Acorde essencial! Memorize as 4 inversoes e pratique resolucoes"
      [] chord.quality = "half_diminished" ->
             "Comum no ii grau menor. Pratique com escala locria"
      [] OTHER -> "Pratique em diferentes inversoes"

\* HarmonyAnalyzerService._get_guest_perspective: the entries of the dict are
\* evaluated in order, and the third one calls self._get_common_usage, which
\* the class does not define
get_guest_perspective(chord_analysis) == NoAttribute("_get_common_usage")

\* HarmonyAnalyzerService._enhance_with_guest_knowledge: the body of the loop
\* raises in its first statement, so the function returns only for an empty
\* analysis
enhance_with_guest_knowledge(basic_analysis, context) ==
    IF basic_analysis = <<>> THEN Return(<<>>)
    ELSE get_guest_perspective(basic_analysis[1])

\* the loop of _generate_suggestions from chord i on
RECURSIVE HarmonicEnrichmentFrom(_, _, _, _, _)
HarmonicEnrichmentFrom(symbols, analysis, k, i, enrichment) ==
    IF i > Len(analysis) THEN Return(enrichment)
    ELSE Then(suggest_chord_substitutions(analysis[i].chord, k), LAMBDA substitutes :
         HarmonicEnrichmentFrom(symbols, analysis, k, i + 1,
             IF substitutes # <<>>
             THEN Append(enrichment,
                         [original    |-> symbols[i],
                          substitutes |-> substitutes,
                          explanation |-> Explanation("Alternativas baseadas no Volume 2",
                                                      symbols[i])])
             ELSE enrichment))

\* HarmonyAnalyzerService._is_jazz_progression
is_jazz_progression(analysis) ==
    \E i \in 1..(Len(analysis) - 2) :
        /\ analysis[i].function = "S"
        /\ analysis[i + 1].function = "D"
        /\ analysis[i + 2].function = "T"

\* HarmonyAnalyzerService._has_modal_characteristics
has_modal_characteristics(analysis) ==
    \E i \in 1..Len(analysis) : analysis[i].function = "sub"

\* HarmonyAnalyzerService._recommend_exercises
recommend_exercises(analysis) ==
    (IF \E i \in 1..Len(analysis) : Contains(analysis[i].chord_symbol, <<"7">>)
     THEN <<"Pratique as inversoes dos acordes de 7a presentes">> ELSE <<>>)
    \o (IF \E i \in 1..Len(analysis) : analysis[i].function = "V/x"
        THEN <<"Estude dominantes secundarios no Volume 2 do Ian Guest">> ELSE <<>>)
    \o <<"Toque a progressao em diferentes tonalidades",
         "Experimente diferentes ritmos e estilos">>

\* HarmonyAnalyzerService._generate_suggestions
generate_suggestions(symbols, k, context) ==
    Then(analyze_chord_progression(symbols, k), LAMBDA analysis :
    Then(HarmonicEnrichmentFrom(symbols, analysis, k, 1, <<>>), LAMBDA enrichment :
         Return([harmonic_enrichment        |-> enrichment,
                 voice_leading_improvements |-> <<>>,
                 style_suggestions |->
                     (IF is_jazz_progression(analysis)
                      THEN <<"Esta progressao tem caracteristicas jazzisticas">> ELSE <<>>)
                     \o (IF has_modal_characteristics(analysis)
                         THEN <<"Progressao com caracteristicas modais">> ELSE <<>>),
                 pedagogical_exercises |-> recommend_exercises(analysis)])))

\* the difficulty points _assess_difficulty gives one chord
DifficultyPoints(chord) ==
    (IF Contains(QualityValueText[chord.quality], <<"7">>) THEN 1 ELSE 0)
    + Len(chord.extensions)
    + (IF chord.function = "sub" THEN 2 ELSE 0)

RECURSIVE SumDifficulty(_, _)
SumDifficulty(analysis, i) ==
    IF i > Len(analysis) THEN 0
    ELSE DifficultyPoints(analysis[i].chord) + SumDifficulty(analysis, i + 1)

\* HarmonyAnalyzerService._assess_difficulty
assess_difficulty(analysis) ==
    LET difficulty_points == SumDifficulty(analysis, 1)
    IN  [level  |-> IF difficulty_points <= 2 THEN "Basico"
                    ELSE IF difficulty_points <= 5 THEN "Intermediario"
                    ELSE "Avancado",
         points |-> difficulty_points]

\* HarmonyAnalyzerService._get_pedagogical_notes; the concepts are joined in
\* the order of a Python set, which is not modelled
get_pedagogical_notes(analysis) ==
    <<Explanation("Nivel de dificuldade", assess_difficulty(analysis).level),
      Explanation("Conceitos envolvidos",
                  {analysis[i].chord.quality : i \in 1..Len(analysis)})>>

\* HarmonyAnalyzerService._get_related_concepts, as the set the list is made of
get_related_concepts(analysis) ==
    UNION {CASE analysis[i].chord.quality = "dominant7" ->
                    {"resolucao_de_dominantes", "escalas_dominantes"}
             [] analysis[i].chord.quality \in {"minor", "minor7"} ->
                    {"modos_menores", "escalas_menores"}
             [] analysis[i].chord.quality = "major7" ->
                    {"modos_maiores", "tensoes_maiores"}
             [] OTHER -> {} : i \in 1..Len(analysis)}

\* HarmonyAnalyzerService.analyze_progression
analyze_progression(symbols, k, context) ==
    Then(analyze_chord_progression(symbols, k), LAMBDA basic_analysis :
    Then(enhance_with_guest_knowledge(basic_analysis, context), LAMBDA enhanced_analysis :
    Then(generate_suggestions(symbols, k, context), LAMBDA suggestions :
    Then(validate_voice_leading(symbols), LAMBDA voice_leading :
         Return([progression       |-> symbols,
                 key               |-> k,
                 context           |-> context,
                 analysis          |-> enhanced_analysis,
                 suggestions       |-> suggestions,
                 voice_leading     |-> voice_leading,
                 pedagogical_notes |-> get_pedagogical_notes(enhanced_analysis),
                 related_concepts  |-> get_related_concepts(enhanced_analysis)])))))

-----------------------------------------------------------------------------
(* IanGuestKnowledgeBase and ExerciseCorrectorService *)

\* A character outside ASCII is written as a token of several letters that
\* stands for the one character: "ord_a" U+00AA, "ord_o" U+00BA, "deg" U+00B0,
\* "o_slash" U+00F8, and the lower-case letters "a_acute", "a_circ", "a_tilde",
\* "c_cedilla", "e_acute", "e_circ", "i_acute", "o_acute", "o_circ", "o_tilde",
\* "u_acute".  str.lower leaves each of them as it is.

\* the dataclass ExerciseTemplate
ExerciseTemplate(lvl, category, description, example, solution, feedback_points) ==
    [level           |-> lvl,
     category        |-> category,
     description     |-> description,
     example         |-> example,
     solution        |-> solution,
     feedback_points |-> feedback_points]

\* IanGuestKnowledgeBase._init_exercises
Exercises ==
    ("nivel_1_basico" :>
        <<ExerciseTemplate(1, "identificacao_intervalos",
                           "Identifique os intervalos entre as notas", "C - E = ?",
                           <<"3", "ord_a", " ", "m", "a", "i", "o", "r">>,
                           <<"C para E = 2 tons = 3a maior", "Intervalo consonante e estavel",
                             "Base do acorde maior">>),
          ExerciseTemplate(1, "formacao_acordes", "Forme a triade solicitada", "Forme Dm",
                           <<"D", " ", "-", " ", "F", " ", "-", " ", "A">>,
                           <<"Fundamental: D", "Terca menor: F", "Quinta justa: A",
                             "Acorde menor = 3a menor + 5a justa">>),
          ExerciseTemplate(1, "campo_harmonico", "Complete o campo harmonico",
                           "Campo harmonico de G maior",
                           <<"G", " ", "-", " ", "A", "m", " ", "-", " ", "B", "m", " ",
                             "-", " ", "C", " ", "-", " ", "D", " ", "-", " ", "E", "m",
                             " ", "-", " ", "F", "#", "ord_o">>,
                           <<"Escala: G-A-B-C-D-E-F#", "Triades formadas sobre cada grau",
                             "Padrao: M-m-m-M-M-m-o">>)>>) @@
    ("nivel_2_intermediario" :>
        <<ExerciseTemplate(2, "emprestimo_modal", "Identifique o acorde de emprestimo",
                           "Em C maior: C - Fm - G - C",
                           <<"F", "m", " ", "e_acute", " ", "e", "m", "p", "r", "e_acute",
                             "s", "t", "i", "m", "o", " ", "d", "o", " ", "m", "o", "d",
                             "o", " ", "m", "e", "n", "o", "r">>,
                           <<"Fm nao pertence ao campo de C maior", "Vem do campo de C menor",
                             "Cria contraste modal interessante">>),
          ExerciseTemplate(2, "dominantes_secundarios", "Insira dominante secundario",
                           "C - Am - Dm - G - C",
                           <<"C", " ", "-", " ", "A", "7", " ", "-", " ", "D", "m", " ",
                             "-", " ", "G", " ", "-", " ", "C">>,
                           <<"A7 = V/ii (dominante de Dm)", "Cria tensao direcionada",
                             "Intensifica resolucao em Dm">>)>>) @@
    ("nivel_3_avancado" :>
        <<ExerciseTemplate(3, "rearmonizacao", "Rearmonize usando substitutos",
                           "C - Am - Dm - G7 - C",
                           <<"C", " ", "-", " ", "A", "m", " ", "-", " ", "D", "m", " ",
                             "-", " ", "D", "b", "7", " ", "-", " ", "C">>,
                           <<"Db7 = substituto tritonal de G7", "Movimento cromatico no baixo",
                             "Sofisticacao harmonica">>),
          ExerciseTemplate(3, "harmonia_modal", "Analise a progressao modal",
                           "Em - D - Em (modo dorico)",
                           <<"i", " ", "-", " ", "b", "V", "I", "I", " ", "-", " ", "i",
                             " ", "e", "m", " ", "E", " ", "d", "o_acute", "r", "i", "c",
                             "o">>,
                           <<"Centro modal: Em", "D maior caracteriza dorico",
                             "Som menor com 6a maior">>)>>)

\* level_map.get(level, "nivel_1_basico") of get_exercise_by_level
LevelKey(lvl) ==
    CASE lvl = 1 -> "nivel_1_basico"
      [] lvl = 2 -> "nivel_2_intermediario"
      [] lvl = 3 -> "nivel_3_avancado"
      [] OTHER -> "nivel_1_basico"

\* IanGuestKnowledgeBase.get_exercise_by_level; an empty category is false
get_exercise_by_level(lvl, category) ==
    IF category # ""
    THEN SelectSeq(Exercises[LevelKey(lvl)], LAMBDA ex : ex.category = category)
    ELSE Exercises[LevelKey(lvl)]

\* ZeroDivisionError raised by a float division by zero
ZeroDivision == [ok |-> FALSE, type |-> "ZeroDivisionError", msg |-> "division by zero"]

\* int((count / total) * 100) for total > 0; the float product is the exact
\* quotient's floor for every total below 50
Percent(count, total) == (count * 100) \div total

\* str.split(sep) for a one-character sep: the parts between the separators,
\* empty ones included
RECURSIVE Split(_, _)
Split(s, sep) ==
    IF \A i \in 1..Len(s) : s[i] # sep THEN <<s>>
    ELSE LET first == CHOOSE i \in 1..Len(s) :
                          s[i] = sep /\ \A j \in 1..(i - 1) : s[j] # sep
         IN  <<SubSeq(s, 1, first - 1)>> \o Split(SubSeq(s, first + 1, Len(s)), sep)

\* str.split(): the words between runs of whitespace
RECURSIVE SplitWhitespace(_)
SplitWhitespace(s) ==
    IF Strip(s) = <<>> THEN <<>>
    ELSE LET rest == Strip(s)
             stop == IF \E i \in 1..Len(rest) : IsSpace(rest[i])
                     THEN (CHOOSE i \in 1..Len(rest) :
                              IsSpace(rest[i]) /\ \A j \in 1..(i - 1) : ~IsSpace(rest[j])) - 1
                     ELSE Len(rest)
         IN  <<SubSeq(rest, 1, stop)>> \o SplitWhitespace(SubSeq(rest, stop + 1, Len(rest)))

\* s.replace(c, text) for a one-character c
RECURSIVE ReplaceChar(_, _, _)
ReplaceChar(s, c, text) ==
    IF s = <<>> THEN <<>>
    ELSE (IF Head(s) = c THEN text ELSE <<Head(s)>>) \o ReplaceChar(Tail(s), c, text)

\* the elements of a list
Elements(list) == {list[i] : i \in 1..Len(list)}

\* ExerciseCorrectorService._normalize_answer
normalize_answer(answer) == RemoveChar(Strip(Lower(answer)), " ")

\* ExerciseCorrectorService._calculate_partial_score
calculate_partial_score(answer, correct_answer) ==
    IF answer = <<>> \/ correct_answer = <<>> THEN 0
    ELSE LET longer == IF Len(answer) >= Len(correct_answer) THEN Len(answer)
                       ELSE Len(correct_answer)
             common_chars == Cardinality({i \in 1..Len(answer) :
                                             i <= Len(correct_answer)
                                             /\ answer[i] = correct_answer[i]})
         IN  Percent(common_chars, longer)

\* ExerciseCorrectorService._validate_generic
validate_generic(answer, correct_answer) ==
    Return([is_correct |-> answer = correct_answer,
            score      |-> IF answer = correct_answer THEN 100
                           ELSE calculate_partial_score(answer, correct_answer)])

\* interval_alternatives of _validate_interval_answer
IntervalAlternatives ==
    << [correct |-> <<"3", "ord_a", "m", "a", "i", "o", "r">>,
        alternatives |->
            << <<"3", "m", "a", "i", "o", "r">>,
               <<"t", "e", "r", "c", "a", "m", "a", "i", "o", "r">>,
               <<"t", "e", "r", "c_cedilla", "a", "m", "a", "i", "o", "r">>,
               <<"3", "m">>,
               <<"3", "ord_a", "m">> >>],
       [correct |-> <<"3", "ord_a", "m", "e", "n", "o", "r">>,
        alternatives |->
            << <<"3", "m", "e", "n", "o", "r">>,
               <<"t", "e", "r", "c", "a", "m", "e", "n", "o", "r">>,
               <<"t", "e", "r", "c_cedilla", "a", "m", "e", "n", "o", "r">>,
               <<"3", "m">>,
               <<"3", "ord_a", "m">> >>],
       [correct |-> <<"5", "ord_a", "j", "u", "s", "t", "a">>,
        alternatives |->
            << <<"5", "j", "u", "s", "t", "a">>,
               <<"q", "u", "i", "n", "t", "a", "j", "u", "s", "t", "a">>,
               <<"5", "j">>,
               <<"5", "ord_a", "j">> >>],
       [correct |-> <<"4", "ord_a", "j", "u", "s", "t", "a">>,
        alternatives |->
            << <<"4", "j", "u", "s", "t", "a">>,
               <<"q", "u", "a", "r", "t", "a", "j", "u", "s", "t", "a">>,
               <<"4", "j">>,
               <<"4", "ord_a", "j">> >>] >>

\* ExerciseCorrectorService._validate_interval_answer
validate_interval_answer(answer, correct_answer) ==
    IF \E e \in 1..Len(IntervalAlternatives) :
           /\ correct_answer = RemoveChar(Lower(IntervalAlternatives[e].correct), "ord_a")
           /\ answer \in {Lower(alt) : alt \in Elements(IntervalAlternatives[e].alternatives)}
    THEN Return([is_correct |-> TRUE, score |-> 100])
    ELSE validate_generic(answer, correct_answer)

\* ExerciseCorrectorService._extract_notes_from_answer
extract_notes_from_answer(answer) ==
    With(Split(ReplaceChar(RemoveChar(answer, " "), "-", <<",">>), ","), LAMBDA notes :
         SelectSeq([i \in 1..Len(notes) |-> Strip(notes[i])], LAMBDA note : note # <<>>))

\* ExerciseCorrectorService._validate_chord_formation
validate_chord_formation(answer, correct_answer) ==
    With(Elements(extract_notes_from_answer(answer)), LAMBDA user_set :
    With(Elements(extract_notes_from_answer(correct_answer)), LAMBDA correct_set :
         IF user_set = correct_set THEN Return([is_correct |-> TRUE, score |-> 100])
         ELSE Return([is_correct |-> FALSE,
                      score |-> IF Cardinality(correct_set) > 0
                                THEN Percent(Cardinality(user_set \cap correct_set),
                                             Cardinality(correct_set))
                                ELSE 0])))

\* ExerciseCorrectorService._extract_chords_from_field
extract_chords_from_field(field_answer) ==
    With(Split(field_answer, "-"), LAMBDA chords :
         SelectSeq([i \in 1..Len(chords) |-> Strip(chords[i])], LAMBDA chord : chord # <<>>))

\* ExerciseCorrectorService._normalize_chord_symbol
normalize_chord_symbol(chord) ==
    ReplaceChar(ReplaceChar(Lower(chord), Degree, <<"d", "i", "m">>),
                "o_slash", <<"m", "7", "b", "5">>)

\* the score of two chord lists of one length, of which count positions agree;
\* the division raises when the lists are empty
ScoreOfCount(count, total) ==
    IF total = 0 THEN ZeroDivision
    ELSE With(Percent(count, total), LAMBDA score :
              Return([is_correct |-> score = 100, score |-> score]))

\* ExerciseCorrectorService._validate_harmonic_field
validate_harmonic_field(answer, correct_answer) ==
    With(extract_chords_from_field(answer), LAMBDA user_chords :
    With(extract_chords_from_field(correct_answer), LAMBDA correct_chords :
         IF Len(user_chords) # Len(correct_chords)
         THEN Return([is_correct |-> FALSE, score |-> 0])
         ELSE ScoreOfCount(Cardinality({i \in 1..Len(correct_chords) :
                                           normalize_chord_symbol(user_chords[i])
                                               = normalize_chord_symbol(correct_chords[i])}),
                           Len(correct_chords))))

\* important_keywords of _validate_modal_borrowing
ImportantKeywords ==
    {<<"e", "m", "p", "r", "e_acute", "s", "t", "i", "m", "o">>,
     <<"m", "e", "n", "o", "r">>, <<"m", "a", "i", "o", "r">>, <<"m", "o", "d", "a", "l">>,
     <<"m", "o", "d", "o">>}

\* ExerciseCorrectorService._validate_modal_borrowing
validate_modal_borrowing(answer, correct_answer) ==
    With(Elements(SplitWhitespace(answer)) \cap ImportantKeywords, LAMBDA user_important :
    With(Elements(SplitWhitespace(correct_answer)) \cap ImportantKeywords,
         LAMBDA correct_important :
         IF user_important = correct_important /\ Cardinality(user_important) > 0
         THEN Return([is_correct |-> TRUE, score |-> 100])
         ELSE Return([is_correct |-> FALSE,
                      score |-> Percent(Cardinality(user_important),
                                        IF Cardinality(correct_important) >= 1
                                        THEN Cardinality(correct_important) ELSE 1)])))

\* ExerciseCorrectorService._is_equivalent_chord: the comparison of the
\* normalised symbols when one of the two does not parse
is_equivalent_chord(chord1, chord2) ==
    With(parse_chord(chord1), LAMBDA parsed1 :
    With(parse_chord(chord2), LAMBDA parsed2 :
         IF parsed1.ok /\ parsed2.ok
         THEN /\ parsed1.value.root = parsed2.value.root
              /\ parsed1.value.quality = parsed2.value.quality
         ELSE normalize_chord_symbol(chord1) = normalize_chord_symbol(chord2)))

\* ExerciseCorrectorService._validate_secondary_dominants
validate_secondary_dominants(answer, correct_answer) ==
    With(extract_chords_from_field(answer), LAMBDA user_progression :
    With(extract_chords_from_field(correct_answer), LAMBDA correct_progression :
         IF Len(user_progression) # Len(correct_progression)
         THEN Return([is_correct |-> FALSE, score |-> 0])
         ELSE ScoreOfCount(Cardinality({i \in 1..Len(correct_progression) :
                                           is_equivalent_chord(user_progression[i],
                                                               correct_progression[i])}),
                           Len(correct_progression))))

\* the functions of the records of an analysis
FunctionsOf(analysis) == [i \in 1..Len(analysis) |-> analysis[i].function]

\* ExerciseCorrectorService._validate_reharmonization: the two progressions
\* are analysed in the default key "C"; an exception of either analysis is
\* swallowed and leads to the direct comparison
validate_reharmonization(answer, correct_answer) ==
    With(analyze_chord_progression(extract_chords_from_field(answer), <<"C">>),
         LAMBDA user_analysis :
    With(analyze_chord_progression(extract_chords_from_field(correct_answer), <<"C">>),
         LAMBDA correct_analysis :
         IF /\ user_analysis.ok
            /\ correct_analysis.ok
            /\ FunctionsOf(user_analysis.value) = FunctionsOf(correct_analysis.value)
         THEN Return([is_correct |-> TRUE, score |-> 100])
         ELSE validate_generic(answer, correct_answer)))

\* modal_keywords of _validate_modal_harmony
ModalKeywords ==
    {<<"d", "o_acute", "r", "i", "c", "o">>,
     <<"d", "o", "r">>,
     <<"m", "i", "x", "o", "l", "i_acute", "d", "i", "o">>,
     <<"m", "i", "x">>,
     <<"l", "i_acute", "d", "i", "o">>,
     <<"l", "i", "d">>}

\* roman_numerals of _validate_modal_harmony
RomanNumeralWords ==
    {<<"i">>, <<"i", "i">>, <<"i", "i", "i">>, <<"i", "v">>, <<"v">>, <<"v", "i">>,
     <<"v", "i", "i">>, <<"b", "v", "i", "i">>}

\* ExerciseCorrectorService._validate_modal_harmony
validate_modal_harmony(answer, correct_answer) ==
    With((IF /\ \E keyword \in ModalKeywords : Contains(Lower(answer), keyword)
             /\ \E keyword \in ModalKeywords : Contains(Lower(correct_answer), keyword)
          THEN 50 ELSE 0)
         + (IF /\ \E numeral \in RomanNumeralWords : Contains(Lower(answer), numeral)
               /\ \E numeral \in RomanNumeralWords : Contains(Lower(correct_answer), numeral)
            THEN 50 ELSE 0),
         LAMBDA score : Return([is_correct |-> score = 100, score |-> score]))

\* ExerciseCorrectorService._validate_answer
validate_answer(exercise, answer) ==
    With(normalize_answer(answer), LAMBDA normalized_user :
    With(normalize_answer(exercise.solution), LAMBDA normalized_correct :
         CASE exercise.category = "identificacao_intervalos" ->
                  validate_interval_answer(normalized_user, normalized_correct)
           [] exercise.category = "formacao_acordes" ->
                  validate_chord_formation(normalized_user, normalized_correct)
           [] exercise.category = "campo_harmonico" ->
                  validate_harmonic_field(normalized_user, normalized_correct)
           [] exercise.category = "emprestimo_modal" ->
                  validate_modal_borrowing(normalized_user, normalized_correct)
           [] exercise.category = "dominantes_secundarios" ->
                  validate_secondary_dominants(normalized_user, normalized_correct)
           [] exercise.category = "rearmonizacao" ->
                  validate_reharmonization(normalized_user, normalized_correct)
           [] exercise.category = "harmonia_modal" ->
                  validate_modal_harmony(normalized_user, normalized_correct)
           [] OTHER -> validate_generic(normalized_user, normalized_correct)))

\* ExerciseCorrectorService._get_score_feedback
get_score_feedback(score) ==
    IF score >= 90 THEN "Excelente! Demonstrou dominio completo do conceito."
    ELSE IF score >= 70
    THEN "Bom trabalho! Alguns pequenos ajustes podem melhorar sua resposta."
    ELSE IF score >= 50
    THEN "No caminho certo! Continue praticando para consolidar o conhecimento."
    ELSE "Precisa revisar os conceitos fundamentais. Nao desanime!"

\* ExerciseCorrectorService._get_encouragement_message
get_encouragement_message(score) ==
    IF score >= 90 THEN "Parabens! Voce esta aplicando bem a metodologia do Ian Guest."
    ELSE IF score >= 70
    THEN "Muito bem! Continue praticando com a sistematizacao do metodo."
    ELSE IF score >= 50
    THEN "Esta progredindo! A persistencia e fundamental no aprendizado musical."
    ELSE "Todo musico passa por dificuldades. Continue estudando com paciencia."

\* ExerciseCorrectorService._get_interval_feedback
get_interval_feedback(answer, correct_answer, validation) ==
    IF ~validation.is_correct
    THEN <<Explanation("A resposta correta e", correct_answer),
           "Lembre-se: conte os semitons entre as notas",
           "Revise a tabela de intervalos no Volume 1 do Ian Guest">>
    ELSE <<>>

\* ExerciseCorrectorService._get_chord_feedback
get_chord_feedback(answer, correct_answer, validation) ==
    IF validation.score < 100
    THEN <<Explanation("Formacao correta", correct_answer),
           IF validation.score > 0
           THEN "Voce acertou algumas notas, mas revise a formacao completa"
           ELSE "Revise como formar triades: fundamental + 3a + 5a",
           "Pratique a formacao em diferentes tonalidades">>
    ELSE <<>>

\* ExerciseCorrectorService._get_field_feedback
get_field_feedback(answer, correct_answer, validation) ==
    IF validation.score < 100
    THEN <<Explanation("Campo harmonico correto", correct_answer),
           "Lembre-se do padrao: I-ii-iii-IV-V-vi-vii",
           "Cada grau tem sua qualidade especifica (maior/menor/diminuto)">>
    ELSE <<>>

\* ExerciseCorrectorService._generate_detailed_feedback
generate_detailed_feedback(exercise, answer, validation) ==
    [score_feedback    |-> get_score_feedback(validation.score),
     specific_feedback |->
         CASE exercise.category = "identificacao_intervalos" ->
                  get_interval_feedback(answer, exercise.solution, validation)
           [] exercise.category = "formacao_acordes" ->
                  get_chord_feedback(answer, exercise.solution, validation)
           [] exercise.category = "campo_harmonico" ->
                  get_field_feedback(answer, exercise.solution, validation)
           [] OTHER -> <<>>,
     encouragement     |-> get_encouragement_message(validation.score),
     concept_review    |-> <<>>,
     practice_tips     |-> exercise.feedback_points]

\* ExerciseCorrectorService._suggest_next_steps
suggest_next_steps(exercise, validation) ==
    IF validation.is_correct
    THEN <<Explanation("Tente exercicios de nivel", exercise.level + 1),
           Explanation("Pratique em diferentes contextos", exercise.category),
           "Aplique o conceito em repertorio musical">>
    ELSE <<"Revise a teoria antes de tentar novamente",
           Explanation("Pratique exercicios similares de", exercise.category),
           "Consulte as referencias do Ian Guest mencionadas">>

\* ExerciseCorrectorService._get_methodology_notes
get_methodology_notes(category) ==
    CASE category = "identificacao_intervalos" ->
             <<"Ian Guest enfatiza a importancia de 'ouvir' os intervalos",
               "Pratique cantando antes de tocar no instrumento",
               "Associe cada intervalo a uma musica conhecida">>
      [] category = "formacao_acordes" ->
             <<"Metodo Guest: sempre partir da triade basica",
               "Memorizar os intervalos componentes", "Praticar em todas as inversoes">>
      [] category = "campo_harmonico" ->
             <<"Base fundamental da harmonia tonal",
               "Ian Guest recomenda decorar em todas as tonalidades",
               "Entender as funcoes antes das cifras">>
      [] OTHER -> <<"Continue seguindo a metodologia sistematica">>

\* ExerciseCorrectorService._get_common_errors
get_common_errors(category) ==
    CASE category = "identificacao_intervalos" ->
             <<"Contar as teclas ao inves dos semitons",
               "Confundir 4a justa com 5a diminuta">>
      [] category = "formacao_acordes" ->
             <<"Esquecer da qualidade da 3a", "Confundir maior com dominante">>
      [] category = "campo_harmonico" ->
             <<"Nao lembrar do vii diminuto", "Confundir as qualidades dos graus">>
      [] OTHER -> <<>>

\* ExerciseCorrectorService._get_practice_sequence
get_practice_sequence(category) ==
    CASE category = "identificacao_intervalos" ->
             <<"1. Decorar intervalos basicos", "2. Praticar intervalos compostos",
               "3. Aplicar em contexto harmonico">>
      [] category = "formacao_acordes" ->
             <<"1. Triades maiores e menores", "2. Acordes diminutos e aumentados",
               "3. Acordes de setima", "4. Tensoes e extensoes">>
      [] OTHER -> <<"Siga a progressao natural do metodo">>

\* ExerciseCorrectorService._get_musical_applications
get_musical_applications(category) ==
    CASE category = "identificacao_intervalos" ->
             <<"Analise melodica", "Construcao de acordes", "Improvisacao">>
      [] category = "formacao_acordes" -> <<"Acompanhamento", "Arranjo", "Composicao">>
      [] category = "campo_harmonico" ->
             <<"Analise de repertorio", "Substituicoes harmonicas", "Modulacao">>
      [] OTHER -> <<"Aplicacao geral em musica popular">>

\* ExerciseCorrectorService._get_guest_pedagogical_notes
get_guest_pedagogical_notes(exercise) ==
    [methodology_notes     |-> get_methodology_notes(exercise.category),
     common_student_errors |-> get_common_errors(exercise.category),
     practice_sequence     |-> get_practice_sequence(exercise.category),
     musical_applications  |-> get_musical_applications(exercise.category)]

\* ExerciseCorrectorService._create_error_response
create_error_response(text) ==
    [error      |-> TRUE,
     message    |-> text,
     is_correct |-> FALSE,
     score      |-> 0,
     feedback   |-> [score_feedback |-> "Erro no processamento do exercicio"]]

\* dict.get(field, default)
Get(dict, field, default) == IF field \in DOMAIN dict THEN dict[field] ELSE default

\* ExerciseCorrectorService._create_exercise_from_data
create_exercise_from_data(data) ==
    ExerciseTemplate(Get(data, "level", 1), Get(data, "category", "geral"),
                     Get(data, "description", ""), Get(data, "example", ""),
                     Get(data, "solution", <<>>), Get(data, "feedback_points", <<>>))

\* ExerciseCorrectorService._get_exercise_template: the first exercise of the
\* type as a list of one element, the empty list for None
get_exercise_template(type, lvl) ==
    With(get_exercise_by_level(lvl, type), LAMBDA exercises :
         IF exercises = <<>> THEN <<>> ELSE <<exercises[1]>>)

\* ExerciseCorrectorService.correct_exercise, from the validation on
CorrectedExercise(type, answer, lvl, exercise) ==
    Then(validate_answer(exercise, answer), LAMBDA validation :
         Return([exercise |-> [type        |-> type,
                               level       |-> lvl,
                               description |-> exercise.description,
                               example     |-> exercise.example],
                 user_answer    |-> answer,
                 correct_answer |-> exercise.solution,
                 is_correct     |-> validation.is_correct,
                 score          |-> validation.score,
                 feedback       |-> generate_detailed_feedback(exercise, answer, validation),
                 next_steps     |-> suggest_next_steps(exercise, validation),
                 guest_pedagogy |-> get_guest_pedagogical_notes(exercise)]))

\* ExerciseCorrectorService.correct_exercise
correct_exercise(type, answer, data, lvl) ==
    With(IF data # NoData THEN <<create_exercise_from_data(data)>>
         ELSE get_exercise_template(type, lvl),
         LAMBDA exercise_template :
             IF exercise_template = <<>>
             THEN Return(create_error_response("Tipo de exercicio nao encontrado"))
             ELSE CorrectedExercise(type, answer, lvl, exercise_template[1]))

\* ExerciseCorrectorService._adapt_exercise_to_key: both branches return the
\* exercise as it is
adapt_exercise_to_key(exercise, target_key) == exercise

\* ExerciseCorrectorService.generate_exercise, with random.choice taking the
\* exercise at index pick (from 1)
generate_exercise(category, lvl, k, pick) ==
    With(get_exercise_by_level(lvl, category), LAMBDA exercises :
         IF exercises = <<>>
         THEN create_error_response("Categoria de exercicio nao encontrada")
         ELSE With(adapt_exercise_to_key(exercises[pick], k), LAMBDA adapted_exercise :
                   [exercise_id     |-> <<category, lvl, k>>,
                    category        |-> category,
                    level           |-> lvl,
                    key             |-> k,
                    description     |-> adapted_exercise.description,
                    example         |-> adapted_exercise.example,
                    expected_answer |-> adapted_exercise.solution,
                    feedback_points |-> adapted_exercise.feedback_points,
                    guest_notes     |-> get_guest_pedagogical_notes(adapted_exercise)]))

-----------------------------------------------------------------------------
(* AIHarmonyAssistant *)

\* SyntaxError raised when ai_chat_service.py is compiled: the elements of
\* "ian_guest_quotes" (lines 66-68) are written ""A harmonia ..." - Ian Guest",
\* an empty string literal followed by a name
ChatServiceSyntaxError ==
    [ok |-> FALSE, type |-> "SyntaxError", msg |-> "invalid syntax"]

\* the import of app.services.ai_chat_service: the module is compiled first,
\* so no statement of it runs and the class AIHarmonyAssistant is never bound
import_ai_chat_service == ChatServiceSyntaxError

Digits == {"0", "1", "2", "3", "4", "5", "6", "7", "8", "9"}

\* the letters outside ASCII of the messages (see the tokens above)
AccentedLetters ==
    {"ord_a", "ord_o", "o_slash", "a_acute", "a_circ", "a_tilde", "c_cedilla", "e_acute",
     "e_circ", "i_acute", "o_acute", "o_circ", "o_tilde", "u_acute"}

\* \w of a str pattern: letters, digits and the underscore
IsWordChar(c) ==
    \/ \E i \in 1..Len(UpperChars) : c = UpperChars[i] \/ c = LowerChars[i]
    \/ c \in Digits \cup {"_"} \cup AccentedLetters

\* \b at position p (from 1): exactly one of the characters before and at p
\* is a word character
WordBoundary(s, p) ==
    (p > 1 /\ IsWordChar(s[p - 1])) # (p <= Len(s) /\ IsWordChar(s[p]))

\* the positions after a match at p of one of the options, in their order
RECURSIVE AfterOneOf(_, _, _)
AfterOneOf(s, p, options) ==
    IF options = <<>> THEN <<>>
    ELSE (IF HasAt(s, p, Head(options)) THEN <<p + Len(Head(options))>> ELSE <<>>)
         \o AfterOneOf(s, p, Tail(options))

\* the same after each of the positions ps, in their order
RECURSIVE AfterOneOfAll(_, _, _)
AfterOneOfAll(s, ps, options) ==
    IF ps = <<>> THEN <<>>
    ELSE AfterOneOf(s, Head(ps), options) \o AfterOneOfAll(s, Tail(ps), options)

\* [#b]? : an accidental is tried before none
AccidentalOptions == << <<"#">>, <<"b">>, <<>> >>

\* (?:m|maj|dim|aug)? : the alternatives in their order, then none
QualityOptions ==
    << <<"m">>, <<"m", "a", "j">>, <<"d", "i", "m">>, <<"a", "u", "g">>, <<>> >>

\* (?:7|9|11|13)?
ExtensionOptions == << <<"7">>, <<"9">>, <<"1", "1">>, <<"1", "3">>, <<>> >>

NoteLetterList == <<"A", "B", "C", "D", "E", "F", "G">>

\* (?:/[A-G][#b]?)? : a bass with accidental, a bass without, none
BassOptions ==
    [i \in 1..14 |-> <<"/", NoteLetterList[((i - 1) \div 2) + 1],
                       IF i % 2 = 1 THEN "#" ELSE "b">>]
    \o [i \in 1..7 |-> <<"/", NoteLetterList[i]>>]
    \o << <<>> >>

\* the ends of the ways chord_pattern matches without its last \b at
\* position p, in the order the regex engine tries them
ChordPatternEnds(s, p) ==
    IF p <= Len(s) /\ s[p] \in Elements(NoteLetterList) /\ WordBoundary(s, p)
    THEN AfterOneOfAll(s, AfterOneOfAll(s, AfterOneOfAll(s,
             AfterOneOf(s, p + 1, AccidentalOptions),
             QualityOptions), ExtensionOptions), BassOptions)
    ELSE <<>>

\* the position after the match of chord_pattern at p, 0 when there is none
ChordPatternEnd(s, p) ==
    With(SelectSeq(ChordPatternEnds(s, p), LAMBDA e : WordBoundary(s, e)), LAMBDA ends :
         IF ends = <<>> THEN 0 ELSE Head(ends))

\* re.findall(chord_pattern, message) from position p on
RECURSIVE FindChords(_, _)
FindChords(s, p) ==
    IF p > Len(s) THEN <<>>
    ELSE With(ChordPatternEnd(s, p), LAMBDA end :
              IF end > 0 THEN <<SubSeq(s, p, end - 1)>> \o FindChords(s, end)
              ELSE FindChords(s, p + 1))

\* AIHarmonyAssistant._extract_chords_from_message: a candidate that
\* parse_chord rejects is skipped
extract_chords_from_message(msg) ==
    SelectSeq(FindChords(msg, 1), LAMBDA chord : parse_chord(chord).ok)

\* keywords_map of _analyze_user_intent
KeywordsMap ==
    << [type |-> "harmony_analysis",
        keywords |-> {<<"a", "n", "a", "l", "i", "s", "e">>,
                      <<"p", "r", "o", "g", "r", "e", "s", "s", "a_tilde", "o">>,
                      <<"a", "c", "o", "r", "d", "e">>,
                      <<"c", "a", "m", "p", "o", " ", "h", "a", "r", "m", "o_circ", "n",
                        "i", "c", "o">>,
                      <<"f", "u", "n", "c_cedilla", "a_tilde", "o">>}],
       [type |-> "exercise_help",
        keywords |-> {<<"e", "x", "e", "r", "c", "i_acute", "c", "i", "o">>,
                      <<"c", "o", "r", "r", "e", "c_cedilla", "a_tilde", "o">>,
                      <<"r", "e", "s", "p", "o", "s", "t", "a">>,
                      <<"c", "o", "m", "o", " ", "r", "e", "s", "o", "l", "v", "e", "r">>,
                      <<"a", "j", "u", "d", "a">>}],
       [type |-> "concept_explanation",
        keywords |-> {<<"o", " ", "q", "u", "e", " ", "e_acute">>,
                      <<"e", "x", "p", "l", "i", "q", "u", "e">>,
                      <<"c", "o", "n", "c", "e", "i", "t", "o">>,
                      <<"d", "e", "f", "i", "n", "i", "c_cedilla", "a_tilde", "o">>,
                      <<"t", "e", "o", "r", "i", "a">>}],
       [type |-> "practice_advice",
        keywords |-> {<<"c", "o", "m", "o", " ", "p", "r", "a", "t", "i", "c", "a", "r">>,
                      <<"e", "s", "t", "u", "d", "a", "r">>,
                      <<"d", "i", "c", "a">>,
                      <<"m", "e_acute", "t", "o", "d", "o">>,
                      <<"t", "e_acute", "c", "n", "i", "c", "a">>}],
       [type |-> "general_theory",
        keywords |-> {<<"i", "n", "t", "e", "r", "v", "a", "l", "o">>,
                      <<"e", "s", "c", "a", "l", "a">>,
                      <<"m", "o", "d", "o">>,
                      <<"t", "e", "n", "s", "a_tilde", "o">>,
                      <<"s", "u", "b", "s", "t", "i", "t", "u", "i", "c_cedilla",
                        "a_tilde", "o">>}] >>

\* the score of the intent at index i of keywords_map
IntentScore(msg, i) ==
    Cardinality({keyword \in KeywordsMap[i].keywords : Contains(Lower(msg), keyword)})

\* max(intent_scores, key=intent_scores.get): the first intent, in the order
\* of keywords_map, whose score is the greatest; "general_question" when no
\* keyword is in the message
MainIntent(msg) ==
    With([i \in 1..Len(KeywordsMap) |-> IntentScore(msg, i)], LAMBDA scores :
         IF \A i \in 1..Len(scores) : scores[i] = 0 THEN "general_question"
         ELSE KeywordsMap[CHOOSE i \in 1..Len(scores) :
                              /\ \A j \in 1..Len(scores) : scores[j] <= scores[i]
                              /\ \A j \in 1..(i - 1) : scores[j] < scores[i]].type)

\* intent_scores.get(main_intent, 0)
Confidence(msg) ==
    With(MainIntent(msg), LAMBDA main_intent :
         IF main_intent = "general_question" THEN 0
         ELSE IntentScore(msg, CHOOSE i \in 1..Len(KeywordsMap) :
                                   KeywordsMap[i].type = main_intent))

\* AIHarmonyAssistant._analyze_user_intent
analyze_user_intent(msg) ==
    [type             |-> MainIntent(msg),
     confidence       |-> Confidence(msg),
     chords_mentioned |-> extract_chords_from_message(msg),
     message_length   |-> Len(SplitWhitespace(msg))]

\* the lines of response_text for the records of the analysis
ResponseLines(chords, analysis) ==
    [i \in 1..Len(analysis) |->
        <<chords[i], analysis[i].roman_numeral, analysis[i].function>>]

\* AIHarmonyAssistant._handle_harmony_question: the progression is analysed
\* in the default key "C" and context "tonal"; every exception raised in the
\* try block is answered by a request for clarification
handle_harmony_question(msg, intent) ==
    IF intent.chords_mentioned # <<>>
    THEN With(analyze_progression(intent.chords_mentioned, <<"C">>, "tonal"),
              LAMBDA analysis :
              IF analysis.ok
              THEN [response      |-> ResponseLines(intent.chords_mentioned,
                                                    analysis.value.analysis),
                    type          |-> "harmony_analysis",
                    analysis_data |-> analysis.value,
                    error         |-> "",
                    concept       |-> ""]
              ELSE [response      |->
                        Explanation("Detectei os acordes, mas preciso de mais contexto",
                                    intent.chords_mentioned),
                    type          |-> "clarification_needed",
                    analysis_data |-> <<>>,
                    error         |-> analysis.msg,
                    concept       |-> ""])
    ELSE [response      |-> "Para analise harmonica, preciso que voce me informe os acordes!",
          type          |-> "instruction",
          analysis_data |-> <<>>,
          error         |-> "",
          concept       |-> ""]

\* a reply that carries a text only
Reply(text, type) ==
    [response |-> text, type |-> type, analysis_data |-> <<>>, error |-> "", concept |-> ""]

\* AIHarmonyAssistant._handle_exercise_question
handle_exercise_question(msg, intent) ==
    Reply("Estou aqui para ajudar com exercicios!", "exercise_help")

\* the keys of concept_responses of _handle_concept_question, in their order
ConceptNames ==
    << <<"t", "e", "n", "s", "a_tilde", "o">>,
       <<"f", "u", "n", "c_cedilla", "a_tilde", "o", " ", "h", "a", "r", "m", "o_circ",
         "n", "i", "c", "a">>,
       <<"s", "u", "b", "s", "t", "i", "t", "u", "t", "o", " ", "t", "r", "i", "t", "o",
         "n", "a", "l">> >>

\* AIHarmonyAssistant._handle_concept_question
handle_concept_question(msg, intent) ==
    IF \E i \in 1..Len(ConceptNames) : Contains(Lower(msg), ConceptNames[i])
    THEN [Reply("explanation, volume, example", "concept_explanation")
             EXCEPT !.concept =
                 ConceptNames[CHOOSE i \in 1..Len(ConceptNames) :
                                  /\ Contains(Lower(msg), ConceptNames[i])
                                  /\ \A j \in 1..(i - 1) :
                                         ~Contains(Lower(msg), ConceptNames[j])]]
    ELSE Reply("Posso explicar varios conceitos!", "concept_help")

\* AIHarmonyAssistant._handle_practice_question
handle_practice_question(msg, intent) ==
    Reply(Explanation("Dicas de pratica",
                      IF Contains(Lower(msg), <<"a", "c", "o", "r", "d", "e">>)
                      THEN "acordes"
                      ELSE IF Contains(Lower(msg), <<"p", "r", "o", "g", "r", "e", "s",
                                                     "s", "a_tilde", "o">>)
                      THEN "progressoes"
                      ELSE "geral"),
          "practice_advice")

\* AIHarmonyAssistant._handle_theory_question
handle_theory_question(msg, intent) ==
    Reply("Sou especialista em teoria harmonica baseada no metodo Ian Guest!", "theory_help")

\* greetings of _handle_general_question
Greetings ==
    {<<"o", "i">>, <<"o", "l", "a_acute">>, <<"h", "e", "l", "l", "o">>,
     <<"b", "o", "m", " ", "d", "i", "a">>,
     <<"b", "o", "a", " ", "t", "a", "r", "d", "e">>,
     <<"b", "o", "a", " ", "n", "o", "i", "t", "e">>}

\* chat_knowledge["greeting_responses"]
GreetingResponses ==
    <<"Ola! Sou seu assistente de harmonia baseado na metodologia Ian Guest.",
      "Oi! Estou aqui para esclarecer suas duvidas sobre harmonia.",
      "Bem-vindo ao plantao de duvidas! Sou especialista no metodo Ian Guest.">>

\* AIHarmonyAssistant._handle_general_question, with random.choice taking the
\* greeting at index pick (from 1)
handle_general_question(msg, intent, pick) ==
    IF \E greeting \in Greetings : Contains(Lower(msg), greeting)
    THEN Reply(GreetingResponses[pick], "greeting")
    ELSE Reply("Estou aqui para ajudar com harmonia!", "general_help")

\* the body of AIHarmonyAssistant.process_chat_message
ChatReply(msg, intent, pick) ==
    CASE intent.type = "harmony_analysis" -> handle_harmony_question(msg, intent)
      [] intent.type = "exercise_help" -> handle_exercise_question(msg, intent)
      [] intent.type = "concept_explanation" -> handle_concept_question(msg, intent)
      [] intent.type = "practice_advice" -> handle_practice_question(msg, intent)
      [] intent.type = "general_theory" -> handle_theory_question(msg, intent)
      [] OTHER -> handle_general_question(msg, intent, pick)

\* a call of AIHarmonyAssistant.process_chat_message: the caller imports the
\* module first
process_chat_message(msg, user_context, pick) ==
    Then(import_ai_chat_service, LAMBDA module :
         With(analyze_user_intent(msg), LAMBDA intent :
              Return([intent |-> intent, reply |-> ChatReply(msg, intent, pick)])))

\* tips of get_random_tip
Tips ==
    <<"Sempre pratique as inversoes", "Funcao harmonica e mais importante que a cifra",
      "Pratique ii-V-I em todas as tonalidades", "Para tensoes: comece pela 9a",
      "Estude com repertorio!">>

\* a call of AIHarmonyAssistant.get_random_tip, with random.choice taking the
\* tip at index pick (from 1)
get_random_tip(pick) == Then(import_ai_chat_service, LAMBDA module : Return(Tips[pick]))

\* level_map.get(user_level.lower(), 1) of suggest_exercises_for_level
LevelNumber(level_name) ==
    CASE Lower(level_name) = <<"b", "a_acute", "s", "i", "c", "o">> -> 1
      [] Lower(level_name) = <<"i", "n", "t", "e", "r", "m", "e", "d", "i", "a_acute", "r",
                               "i", "o">> -> 2
      [] Lower(level_name) = <<"a", "v", "a", "n", "c_cedilla", "a", "d", "o">> -> 3
      [] OTHER -> 1

\* exercise_categories of suggest_exercises_for_level
ExerciseCategories ==
    <<"identificacao_intervalos", "formacao_acordes", "campo_harmonico", "emprestimo_modal",
      "dominantes_secundarios", "rearmonizacao">>

\* the loop of suggest_exercises_for_level from category i on; the knowledge
\* base has at most one exercise of a category at a level, so random.choice
\* of generate_exercise has one outcome
RECURSIVE SuggestionsForLevelFrom(_, _, _)
SuggestionsForLevelFrom(level_num, i, suggestions) ==
    IF i > level_num + 1 \/ i > Len(ExerciseCategories) THEN suggestions
    ELSE With(generate_exercise(ExerciseCategories[i], level_num, <<"C">>, 1),
              LAMBDA exercise :
              SuggestionsForLevelFrom(level_num, i + 1,
                  IF ~Get(exercise, "error", FALSE)
                  THEN Append(suggestions,
                              [category    |-> ExerciseCategories[i],
                               description |-> exercise.description,
                               level       |-> level_num])
                  ELSE suggestions))

\* a call of AIHarmonyAssistant.suggest_exercises_for_level
suggest_exercises_for_level(level_name) ==
    Then(import_ai_chat_service, LAMBDA module :
         Return(SuggestionsForLevelFrom(LevelNumber(level_name), 1, <<>>)))

-----------------------------------------------------------------------------
(* main.py: the HTTP endpoints *)

\* the import of main: line 13 imports ai_chat_service, so the module raises
\* before the app and its routes are created
import_main == Then(import_ai_chat_service, LAMBDA module : Return("app"))

\* {"success": True, "data": result}, sent with status 200
Success(data) == [status_code |-> 200, success |-> TRUE, data |-> data, detail |-> ""]

\* HTTPException(status_code, detail)
HTTPException(status_code, detail) ==
    [status_code |-> status_code, success |-> FALSE, data |-> <<>>, detail |-> detail]

\* the body shared by the endpoints: the service's result is sent as a
\* success, and every exception it raised as status 400 with its text
Endpoint(called) ==
    Then(import_main, LAMBDA app :
         Return(IF called.ok THEN Success(called.value)
                ELSE HTTPException(400, called.msg)))

\* POST /api/v1/analyze/progression
analyze_progression_endpoint(symbols, k, context) ==
    Endpoint(analyze_progression(symbols, k, context))

\* POST /api/v1/analyze/chord
analyze_chord_endpoint(symbol, k) == Endpoint(get_chord_detail(symbol, k))

\* POST /api/v1/reharmonize
suggest_reharmonizations_endpoint(symbols, k, style) ==
    Endpoint(suggest_reharmonizations(symbols, k, style))

\* POST /api/v1/improvisation/guide
get_improvisation_guide_endpoint(symbols, k) == Endpoint(get_improvisation_guide(symbols, k))

\* POST /api/v1/exercises/correct
correct_exercise_endpoint(type, answer, data, lvl) ==
    Endpoint(correct_exercise(type, answer, data, lvl))

\* GET /api/v1/chat/exercises/{level}
suggest_exercises_endpoint(level_name) == Endpoint(suggest_exercises_for_level(level_name))

\* POST /api/v1/chat/message
chat_with_assistant_endpoint(msg, user_context, pick) ==
    Endpoint(process_chat_message(msg, user_context, pick))

-----------------------------------------------------------------------------
(* the arguments the operations are applied to *)

\* the supported quality suffixes, suffixes that combine them, and two the
\* classifier does not know ("6", "add2")
QualityTexts ==
    {<<>>, <<"m">>, <<"m", "7">>, <<"m", "a", "j", "7">>, <<"M", "7">>, <<"7">>,
      <<"d", "i", "m">>, <<"a", "u", "g">>, <<"+">>, <<"s", "u", "s", "4">>,
      <<"s", "u", "s", "2">>, <<"9">>, <<"1", "1">>, <<"1", "3">>, <<"#", "1", "1">>,
      <<"b", "1", "3">>, <<"m", "7", "b", "5">>, <<"d", "i", "m", "7">>,
      <<"m", "a", "j", "9">>, <<"m", "9">>, <<"7", "#", "1", "1">>, <<"6">>,
      <<"a", "d", "d", "2">>}

NoteLetters == {"A", "B", "C", "D", "E", "F", "G"}

\* every text that matches [A-G][#b]?
NoteNames ==
    {<<l>> : l \in NoteLetters} \cup {<<l, a>> : l \in NoteLetters, a \in {"#", "b"}}

\* the note names, and texts no chord symbol may start with
RootTexts == NoteNames \cup {<<"H">>, <<"c">>, <<>>}

\* no slash part, two slash basses, and three malformed slash parts
BassTexts ==
    {<<>>, <<"/", "G">>, <<"/", "B", "b">>, <<"/", "H">>, <<"/">>, <<"/", "G", "7">>}

\* blanks around a symbol
Blanks == {<<>>, <<" ">>, <<" ", " ">>}

\* symbols as typed: every root text with every suffix and slash part, and
\* some of them with blanks before or after
ChordSymbols ==
    {r \o q \o b : r \in RootTexts, q \in QualityTexts, b \in BassTexts}
    \cup {before \o r \o q \o b \o after :
              before \in Blanks, after \in Blanks,
              r \in {<<"C">>, <<"B", "b">>, <<"H">>}, q \in {<<>>, <<"m", "7">>},
              b \in {<<>>, <<"/", "G">>, <<"/", "G", "7">>}}

\* the keys a request may name: the 12 names of the chromatic alphabet, and a
\* flat spelling
Keys ==
    {<<"C">>, <<"C", "#">>, <<"D">>, <<"D", "#">>, <<"E">>, <<"F">>, <<"F", "#">>,
     <<"G">>, <<"G", "#">>, <<"A">>, <<"A", "#">>, <<"B">>, <<"B", "b">>}

\* the suffixes of the chords analysed in every key
AnalysisQualityTexts ==
    {<<>>, <<"m">>, <<"m", "7">>, <<"m", "a", "j", "7">>, <<"M", "7">>, <<"7">>,
      <<"d", "i", "m">>, <<"a", "u", "g">>, <<"s", "u", "s", "4">>}

\* the roots of the chords analysed in every key: the 12 names of the
\* chromatic alphabet and three other spellings the parser accepts
ChordRoots ==
    {<<"C">>, <<"C", "#">>, <<"D">>, <<"D", "#">>, <<"E">>, <<"F">>, <<"F", "#">>,
     <<"G">>, <<"G", "#">>, <<"A">>, <<"A", "#">>, <<"B">>,
     <<"D", "b">>, <<"B", "b">>, <<"E", "#">>}

SingleChords == {r \o q : r \in ChordRoots, q \in AnalysisQualityTexts}

\* the chords progressions are built from: every root of the chromatic
\* alphabet, a flat spelling, a minor chord, a seventh chord, a malformed symbol
ProgressionChords ==
    {<<"C">>, <<"C", "#">>, <<"D">>, <<"D", "#">>, <<"E">>, <<"F">>, <<"F", "#">>,
     <<"G">>, <<"G", "#">>, <<"A">>, <<"A", "#">>, <<"B">>,
     <<"G", "b">>, <<"A", "m">>, <<"G", "7">>, <<"H", "7">>}

\* the longest progression built from ProgressionChords
MaxProgressionLen == 2

\* all sequences over S of length at most n
RECURSIVE SeqsUpTo(_, _)
SeqsUpTo(S, n) ==
    IF n = 0 THEN {<<>>}
    ELSE LET shorter == SeqsUpTo(S, n - 1)
         IN  shorter \cup {Append(p, x) : p \in shorter, x \in S}

\* demo_chords of full_demo_analysis
DemoChords == << <<"D", "m", "7">>, <<"G", "7">>, <<"C", "M", "7">> >>

Progressions == SeqsUpTo(ProgressionChords, MaxProgressionLen) \cup {DemoChords}

-----------------------------------------------------------------------------
(* the state machine *)

\* the values of the enum ChordQuality
ChordQualities ==
    {"major", "minor", "diminished", "augmented", "dominant7", "major7", "minor7",
     "half_diminished", "diminished7", "suspended4", "suspended2"}

\* the values of the enum Function
Functions == {"T", "S", "D", "V/x", "dim", "sub"}

\* MusicTheoryEngine.__init__
EngineInit ==
    /\ chromatic_notes =
           << <<"C">>, <<"C", "#">>, <<"D">>, <<"D", "#">>, <<"E">>, <<"F">>,
              <<"F", "#">>, <<"G">>, <<"G", "#">>, <<"A">>, <<"A", "#">>, <<"B">> >>
    /\ harmonic_functions =
           (<<"I">> :> "T") @@ (<<"i", "i">> :> "S") @@ (<<"i", "i", "i">> :> "T") @@
           (<<"I", "V">> :> "S") @@ (<<"V">> :> "D") @@ (<<"v", "i">> :> "T") @@
           (<<"v", "i", "i", Degree>> :> "D")
    /\ modes =
           ("ionian" :> <<0, 2, 4, 5, 7, 9, 11>>) @@ ("dorian" :> <<0, 2, 3, 5, 7, 9, 10>>) @@
           ("phrygian" :> <<0, 1, 3, 5, 7, 8, 10>>) @@ ("lydian" :> <<0, 2, 4, 6, 7, 9, 11>>) @@
           ("mixolydian" :> <<0, 2, 4, 5, 7, 9, 10>>) @@
           ("aeolian" :> <<0, 2, 3, 5, 7, 8, 10>>) @@ ("locrian" :> <<0, 1, 3, 5, 6, 8, 10>>)

\* a caller's arguments: one symbol to parse, one chord to analyse in any
\* key, a progression, or a Chord value to resolve in any key
Arguments ==
    \/ /\ chord_symbol \in ChordSymbols
       /\ chord_symbols = <<>>
       /\ chord_obj = Chord(<<"C">>, "major", <<>>, None)
       /\ key = <<"C">>
    \/ /\ chord_symbols \in {<<c>> : c \in SingleChords}
       /\ chord_symbol = chord_symbols[1]
       /\ chord_obj = Chord(<<"C">>, "major", <<>>, None)
       /\ key \in Keys
    \/ /\ chord_symbols \in Progressions
       /\ chord_symbol = <<"C">>
       /\ chord_obj = Chord(<<"C">>, "major", <<>>, None)
       /\ key \in {<<"C">>, <<"G">>}
    \/ /\ chord_obj \in {Chord(r, q, <<>>, None) : r \in ChordRoots, q \in ChordQualities}
       /\ chord_symbol = <<"C">>
       /\ chord_symbols = <<>>
       /\ key \in Keys

\* the arguments of the services that are not called
NoServiceArguments ==
    /\ message = <<>>
    /\ user_level = <<>>
    /\ exercise_type = "geral"
    /\ user_answer = <<>>
    /\ exercise_data = NoData
    /\ level = 1

Init ==
    /\ EngineInit
    /\ Arguments
    /\ NoServiceArguments
    /\ position = 0
    /\ total_chords = Len(chord_symbols)
    /\ op = "none"
    /\ result = Return(<<>>)

\* a call of parse_chord(chord_symbol) that records a root it does not know
\* in the alphabet
ParseChord_ExtendsAlphabet ==
    /\ op' = "parse_chord"
    /\ result' = parse_chord(chord_symbol)
    /\ chromatic_notes' =
           IF result'.ok /\ ~Index(chromatic_notes, result'.value.root).ok
           THEN Append(chromatic_notes, result'.value.root)
           ELSE chromatic_notes
    /\ UNCHANGED <<harmonic_functions, modes, chord_symbol, chord_symbols, chord_obj, key,
                   position, total_chords, message, user_level, exercise_type, user_answer,
                   exercise_data, level>>

\* a call of parse_chord(chord_symbol)
ParseChord ==
    /\ op' = "parse_chord"
    /\ result' = parse_chord(chord_symbol)
    /\ UNCHANGED args

\* a call of analyze_chord_progression(chord_symbols, key)
AnalyzeChordProgression ==
    /\ op' = "analyze_chord_progression"
    /\ result' = analyze_chord_progression(chord_symbols, key)
    /\ UNCHANGED args

\* a call of validate_voice_leading(chord_symbols)
ValidateVoiceLeading ==
    /\ op' = "validate_voice_leading"
    /\ result' = validate_voice_leading(chord_symbols)
    /\ UNCHANGED args

\* a call of suggest_chord_substitutions on the chord parse_chord returned for
\* chord_symbol
SuggestChordSubstitutions ==
    /\ parse_chord(chord_symbol).ok
    /\ op' = "suggest_chord_substitutions"
    /\ result' = suggest_chord_substitutions(parse_chord(chord_symbol).value, key)
    /\ UNCHANGED args

\* a call of _get_roman_numeral(chord, key)
GetRomanNumeral ==
    /\ op' = "_get_roman_numeral"
    /\ result' = get_roman_numeral(chord_obj, key)
    /\ UNCHANGED args

\* a call of _determine_function on the numeral _get_roman_numeral returned
DetermineFunction ==
    /\ op = "_get_roman_numeral"
    /\ result.ok
    /\ op' = "_determine_function"
    /\ result' = Return([roman_numeral |-> result.value,
                         function      |-> determine_function(result.value)])
    /\ UNCHANGED args

Next ==
    \/ ParseChord
    \/ AnalyzeChordProgression
    \/ ValidateVoiceLeading
    \/ SuggestChordSubstitutions
    \/ GetRomanNumeral
    \/ DetermineFunction

Spec == Init /\ [][Next]_vars

-----------------------------------------------------------------------------
(* the services built on the engine *)

\* the chords of the progressions handed to the services: every quality the
\* parser produces, a root outside the alphabet and a symbol the parser rejects
ServiceChords ==
    {<<"C">>, <<"A", "m">>, <<"D", "m", "7">>, <<"G", "7">>, <<"C", "m", "a", "j", "7">>,
     <<"C", "a", "u", "g">>, <<"G", "b">>, <<"H", "7">>}

ServiceProgressions == SeqsUpTo(ServiceChords, MaxProgressionLen)

\* the style argument of suggest_reharmonizations (its default)
DefaultStyle == "jazz"

\* a caller's arguments: a progression in a key, or a Chord at a position of a
\* progression of total_chords chords
ServiceArguments ==
    \/ /\ chord_symbols \in ServiceProgressions
       /\ key \in {<<"C">>, <<"G">>}
       /\ chord_obj = Chord(<<"C">>, "major", <<>>, None)
       /\ position = 0
       /\ total_chords = Len(chord_symbols)
    \/ /\ chord_obj \in {[Chord(r, q, <<>>, None) EXCEPT !.function = f] :
                            r \in ChordRoots, q \in ChordQualities, f \in {NoFunction, "T"}}
       /\ total_chords \in 1..MaxProgressionLen
       /\ position \in 0..(total_chords - 1)
       /\ chord_symbols = <<>>
       /\ key = <<"C">>

InitServices ==
    /\ EngineInit
    /\ ServiceArguments
    /\ NoServiceArguments
    /\ chord_symbol = <<"C">>
    /\ op = "none"
    /\ result = Return(<<>>)

\* a call of suggest_reharmonizations(chord_symbols, key)
SuggestReharmonizations ==
    /\ op' = "suggest_reharmonizations"
    /\ result' = suggest_reharmonizations(chord_symbols, key, DefaultStyle)
    /\ UNCHANGED args

\* a call of get_improvisation_guide(chord_symbols, key)
GetImprovisationGuide ==
    /\ op' = "get_improvisation_guide"
    /\ result' = get_improvisation_guide(chord_symbols, key)
    /\ UNCHANGED args

\* a call of _get_chord_substitutions(chord, key, style, position, total_chords)
GetChordSubstitutions ==
    /\ op' = "_get_chord_substitutions"
    /\ result' = get_chord_substitutions(chord_obj, key, DefaultStyle, position, total_chords)
    /\ UNCHANGED args

\* a call of the engine's suggest_chord_substitutions(chord, key)
SuggestChordSubstitutionsOfChord ==
    /\ op' = "suggest_chord_substitutions"
    /\ result' = suggest_chord_substitutions(chord_obj, key)
    /\ UNCHANGED args

\* a call of _get_tritone_substitution(chord), made for dominant-seventh chords
GetTritoneSubstitution ==
    /\ chord_obj.quality = "dominant7"
    /\ op' = "_get_tritone_substitution"
    /\ result' = get_tritone_substitution(chord_obj)
    /\ UNCHANGED args

\* the substitute _get_tritone_substitution returned is parsed and substituted
\* again
SubstituteAgain ==
    /\ op = "_get_tritone_substitution"
    /\ result.ok
    /\ op' = "substitute_again"
    /\ result' = Then(parse_chord(result.value),
                      LAMBDA parsed :
                          Then(get_tritone_substitution(parsed),
                               LAMBDA again :
                                   Return([substitute |-> result.value,
                                           parsed     |-> parsed,
                                           again      |-> again])))
    /\ UNCHANGED args

\* a call of _get_available_tensions(chord, key)
GetAvailableTensions ==
    /\ op' = "_get_available_tensions"
    /\ result' = Return(get_available_tensions(chord_obj))
    /\ UNCHANGED args

\* a call of _recommend_scales(chord, key)
RecommendScales ==
    /\ op' = "_recommend_scales"
    /\ result' = Return(recommend_scales(chord_obj))
    /\ UNCHANGED args

\* a call of _add_secondary_dominants(chord_symbols, key)
AddSecondaryDominants ==
    /\ op' = "_add_secondary_dominants"
    /\ result' = add_secondary_dominants(chord_symbols, key)
    /\ UNCHANGED args

NextServices ==
    \/ SuggestReharmonizations
    \/ GetImprovisationGuide
    \/ GetChordSubstitutions
    \/ SuggestChordSubstitutionsOfChord
    \/ GetTritoneSubstitution
    \/ SubstituteAgain
    \/ GetAvailableTensions
    \/ RecommendScales
    \/ AddSecondaryDominants

SpecServices == InitServices /\ [][NextServices]_vars

-----------------------------------------------------------------------------
(* the application: analyzer, exercise corrector, assistant and endpoints *)

\* the chords whose detail is asked for: the analysed chords and a malformed
\* symbol
DetailChords == SingleChords \cup {<<"H", "7">>}

\* the categories an exercise request may name
ExerciseTypes ==
    {"identificacao_intervalos", "formacao_acordes", "campo_harmonico", "emprestimo_modal",
     "dominantes_secundarios", "rearmonizacao", "harmonia_modal", "geral"}

\* the highest level an exercise request names (the knowledge base has 1..3)
MaxLevel == 4

\* answers as typed by a user
Answers ==
    {<<>>,
     <<"C", " ", "-", " ", "F", " ", "-", " ", "G">>,
     <<"C", " ", "-", " ", "F", " ", "-", " ", "G", "7">>,
     <<"c", "-", "f", "-", "g">>,
     <<"C", " ", "-", " ", "A", "m", " ", "-", " ", "D", "m", " ", "-", " ", "D", "b", "7",
       " ", "-", " ", "C">>,
     <<"C", " ", "-", " ", "A", "m", " ", "-", " ", "D", "m", " ", "-", " ", "G", "7", " ",
       "-", " ", "C">>,
     <<"C", " ", "-", " ", "A", "7", " ", "-", " ", "D", "m", " ", "-", " ", "G", " ", "-",
       " ", "C">>,
     <<"3", "ord_a", " ", "M", "a", "i", "o", "r">>,
     <<"3", "m">>,
     <<"A", ",", " ", "F", ",", " ", "D">>,
     <<"G", "-", "A", "m", "-", "B", "m", "-", "C", "-", "D", "-", "E", "m", "-", "F", "#",
       "deg">>,
     <<"e", "m", "p", "r", "e_acute", "s", "t", "i", "m", "o">>,
     <<"E", " ", "d", "o_acute", "r", "i", "c", "o", " ", "i">>}

\* solutions of exercises given with the request
GivenSolutions ==
    {<<>>,
     <<"-">>,
     <<"C", " ", "-", " ", "F", " ", "-", " ", "G">>,
     <<"C", " ", "-", " ", "A", "m", " ", "-", " ", "D", "m", " ", "-", " ", "D", "b", "7",
       " ", "-", " ", "C">>}

\* exercise_data of a request: None, or a dict with a category and a solution
GivenExercises ==
    {[category |-> c, solution |-> s] :
        c \in {"rearmonizacao", "campo_harmonico", "dominantes_secundarios"},
        s \in GivenSolutions}

\* chat messages
Messages ==
    {<<>>,
     <<"A", "n", "a", "l", "i", "s", "e", " ", "a", " ", "p", "r", "o", "g", "r", "e", "s",
       "s", "a_tilde", "o", " ", "C", " ", "-", " ", "A", "m", " ", "-", " ", "F", " ",
       "-", " ", "G">>,
     <<"a", "n", "a", "l", "i", "s", "e", " ", "G", "b", " ", "e", " ", "C">>,
     <<"a", "n", "a", "l", "i", "s", "e", " ", "H", "7">>,
     <<"A", "n", "a", "l", "i", "s", "e", " ", "C", "#", "m", "7", "/", "G", "#", " ", "e",
       " ", "C", "m", "a", "j", "7">>,
     <<"A", " ", "h", "a", "r", "m", "o", "n", "i", "a">>,
     <<"o", " ", "q", "u", "e", " ", "e_acute", " ", "t", "e", "n", "s", "a_tilde", "o">>,
     <<"c", "o", "m", "o", " ", "p", "r", "a", "t", "i", "c", "a", "r", " ", "a", "c", "o",
       "r", "d", "e">>,
     <<"o", "i">>}

\* level names of GET /api/v1/chat/exercises/{level}
LevelNames ==
    {<<"b", "a_acute", "s", "i", "c", "o">>,
     <<"i", "n", "t", "e", "r", "m", "e", "d", "i", "a_acute", "r", "i", "o">>,
     <<"a", "v", "a", "n", "c_cedilla", "a", "d", "o">>,
     <<"B", "a_acute", "s", "i", "c", "o">>,
     <<"e", "x", "p", "e", "r", "t">>}

\* a request's arguments: a chord and a key, a progression and a key, an
\* exercise to correct, or a chat message and a level name
AppArguments ==
    \/ /\ chord_symbol \in DetailChords
       /\ key \in {<<"C">>, <<"G">>}
       /\ chord_symbols = <<>>
       /\ NoServiceArguments
    \/ /\ chord_symbols \in ServiceProgressions
       /\ key \in {<<"C">>, <<"G">>}
       /\ chord_symbol = <<"C">>
       /\ NoServiceArguments
    \/ /\ exercise_type \in ExerciseTypes
       /\ level \in 1..MaxLevel
       /\ user_answer \in Answers
       /\ exercise_data = NoData
       /\ message = <<>>
       /\ user_level = <<>>
       /\ chord_symbol = <<"C">>
       /\ chord_symbols = <<>>
       /\ key = <<"C">>
    \/ /\ exercise_data \in GivenExercises
       /\ exercise_type = exercise_data.category
       /\ level = 3
       /\ user_answer \in Answers
       /\ message = <<>>
       /\ user_level = <<>>
       /\ chord_symbol = <<"C">>
       /\ chord_symbols = <<>>
       /\ key = <<"C">>
    \/ /\ message \in Messages
       /\ user_level \in LevelNames
       /\ exercise_type = "geral"
       /\ user_answer = <<>>
       /\ exercise_data = NoData
       /\ level = 1
       /\ chord_symbol = <<"C">>
       /\ chord_symbols = <<>>
       /\ key = <<"C">>

InitApp ==
    /\ EngineInit
    /\ AppArguments
    /\ chord_obj = Chord(<<"C">>, "major", <<>>, None)
    /\ position = 0
    /\ total_chords = Len(chord_symbols)
    /\ op = "none"
    /\ result = Return(<<>>)

\* the context argument of analyze_progression (its default)
DefaultContext == "tonal"

\* a call of HarmonyAnalyzerService.get_chord_detail(chord_symbol, key)
GetChordDetail ==
    /\ op' = "get_chord_detail"
    /\ result' = get_chord_detail(chord_symbol, key)
    /\ UNCHANGED args

\* the first inversion get_chord_detail returned, the chord serialised as its
\* root followed by its quality, is parsed again
ReparseInversion ==
    /\ op = "get_chord_detail"
    /\ result.ok
    /\ op' = "reparse_inversion"
    /\ result' = Return([chord    |-> result.value.parsed_chord,
                         symbol   |-> result.value.inversions[1],
                         reparsed |-> parse_chord(result.value.inversions[1])])
    /\ UNCHANGED args

\* a call of HarmonyAnalyzerService.analyze_progression(chord_symbols, key)
AnalyzeProgression ==
    /\ op' = "analyze_progression"
    /\ result' = analyze_progression(chord_symbols, key, DefaultContext)
    /\ UNCHANGED args

\* a call of ExerciseCorrectorService.correct_exercise
CorrectExercise ==
    /\ op' = "correct_exercise"
    /\ result' = correct_exercise(exercise_type, user_answer, exercise_data, level)
    /\ UNCHANGED args

\* a call of ExerciseCorrectorService.generate_exercise(exercise_type, level)
GenerateExercise ==
    /\ \E pick \in 1..Len(get_exercise_by_level(level, exercise_type)) :
           result' = Return(generate_exercise(exercise_type, level, <<"C">>, pick))
    /\ op' = "generate_exercise"
    /\ UNCHANGED args

\* generate_exercise for a category that has no exercise at the level
GenerateExerciseNotFound ==
    /\ get_exercise_by_level(level, exercise_type) = <<>>
    /\ op' = "generate_exercise"
    /\ result' = Return(generate_exercise(exercise_type, level, <<"C">>, 1))
    /\ UNCHANGED args

\* a call of AIHarmonyAssistant.process_chat_message(message)
ProcessChatMessage ==
    /\ \E pick \in 1..Len(GreetingResponses) :
           result' = process_chat_message(message, NoData, pick)
    /\ op' = "process_chat_message"
    /\ UNCHANGED args

\* a call of AIHarmonyAssistant.suggest_exercises_for_level(user_level)
SuggestExercisesForLevel ==
    /\ op' = "suggest_exercises_for_level"
    /\ result' = suggest_exercises_for_level(user_level)
    /\ UNCHANGED args

\* a call of AIHarmonyAssistant.get_random_tip()
GetRandomTip ==
    /\ \E pick \in 1..Len(Tips) : result' = get_random_tip(pick)
    /\ op' = "get_random_tip"
    /\ UNCHANGED args

\* a request POST /api/v1/analyze/progression
PostAnalyzeProgression ==
    /\ op' = "POST /api/v1/analyze/progression"
    /\ result' = analyze_progression_endpoint(chord_symbols, key, DefaultContext)
    /\ UNCHANGED args

\* a request POST /api/v1/analyze/chord
PostAnalyzeChord ==
    /\ op' = "POST /api/v1/analyze/chord"
    /\ result' = analyze_chord_endpoint(chord_symbol, key)
    /\ UNCHANGED args

\* a request POST /api/v1/reharmonize
PostReharmonize ==
    /\ op' = "POST /api/v1/reharmonize"
    /\ result' = suggest_reharmonizations_endpoint(chord_symbols, key, DefaultStyle)
    /\ UNCHANGED args

\* a request POST /api/v1/improvisation/guide
PostImprovisationGuide ==
    /\ op' = "POST /api/v1/improvisation/guide"
    /\ result' = get_improvisation_guide_endpoint(chord_symbols, key)
    /\ UNCHANGED args

\* a request POST /api/v1/exercises/correct
PostCorrectExercise ==
    /\ op' = "POST /api/v1/exercises/correct"
    /\ result' = correct_exercise_endpoint(exercise_type, user_answer, exercise_data, level)
    /\ UNCHANGED args

\* a request POST /api/v1/chat/message
PostChatMessage ==
    /\ \E pick \in 1..Len(GreetingResponses) :
           result' = chat_with_assistant_endpoint(message, NoData, pick)
    /\ op' = "POST /api/v1/chat/message"
    /\ UNCHANGED args

\* a request GET /api/v1/chat/exercises/{level}
GetSuggestExercises ==
    /\ op' = "GET /api/v1/chat/exercises"
    /\ result' = suggest_exercises_endpoint(user_level)
    /\ UNCHANGED args

NextApp ==
    \/ GetChordDetail
    \/ ReparseInversion
    \/ AnalyzeProgression
    \/ CorrectExercise
    \/ GenerateExercise
    \/ GenerateExerciseNotFound
    \/ ProcessChatMessage
    \/ SuggestExercisesForLevel
    \/ GetRandomTip
    \/ PostAnalyzeProgression
    \/ PostAnalyzeChord
    \/ PostReharmonize
    \/ PostImprovisationGuide
    \/ PostCorrectExercise
    \/ PostChatMessage
    \/ GetSuggestExercises

SpecApp == InitApp /\ [][NextApp]_vars

-----------------------------------------------------------------------------
(* what the claims are stated with *)

\* the 12 names of the chromatic alphabet, in order
Alphabet ==
    << <<"C">>, <<"C", "#">>, <<"D">>, <<"D", "#">>, <<"E">>, <<"F">>,
       <<"F", "#">>, <<"G">>, <<"G", "#">>, <<"A">>, <<"A", "#">>, <<"B">> >>

AlphabetNames == {Alphabet[i] : i \in 1..12}

\* the index (0..11) of a name of the alphabet
Position(name) == (CHOOSE i \in 1..12 : Alphabet[i] = name) - 1

\* semitones from the key up to the root
IntervalAbove(root, k) == (Position(root) - Position(k)) % 12

DiatonicIntervals == {0, 2, 4, 5, 7, 9, 11}

UpperNumeral ==
    (0 :> <<"I">>) @@ (2 :> <<"I", "I">>) @@ (4 :> <<"I", "I", "I">>) @@
    (5 :> <<"I", "V">>) @@ (7 :> <<"V">>) @@ (9 :> <<"V", "I">>) @@
    (11 :> <<"V", "I", "I">>)

LowerNumeral ==
    (0 :> <<"i">>) @@ (2 :> <<"i", "i">>) @@ (4 :> <<"i", "i", "i">>) @@
    (5 :> <<"i", "v">>) @@ (7 :> <<"v">>) @@ (9 :> <<"v", "i">>) @@
    (11 :> <<"v", "i", "i">>)

\* a numeral in upper case, in lower case, and in lower case with the mark
Spellings(interval) ==
    {UpperNumeral[interval], LowerNumeral[interval], LowerNumeral[interval] \o <<Degree>>}

TonicNumerals == Spellings(0) \cup Spellings(4) \cup Spellings(9)

SubdominantNumerals == Spellings(2) \cup Spellings(5)

DominantNumerals == Spellings(7) \cup Spellings(11)

\* the function the claimed table gives a numeral
HasClaimedFunction(numeral, function) ==
    /\ numeral \in TonicNumerals => function = "T"
    /\ numeral \in SubdominantNumerals => function = "S"
    /\ numeral \in DominantNumerals => function = "D"

Analysed == op = "analyze_chord_progression" /\ result.ok

Parsed == op = "parse_chord" /\ result.ok

\* the quality suffix of a symbol the parser accepts
QualitySuffix(symbol) == ChordPatternMatch(Strip(symbol)).g2

\* C1: the function of a numeral is found after the diminished mark is
\* stripped and the case normalised: I, III, VI in any spelling are Tonic, II
\* and IV Subdominant, V and VII Dominant; in key C, C is I/Tonic, Dm is
\* ii/Subdominant, G7 is V/Dominant.
C1_FunctionOfNumeral ==
    /\ op = "_determine_function" =>
           HasClaimedFunction(result.value.roman_numeral, result.value.function)
    /\ Analysed =>
           \A i \in 1..Len(result.value) :
               HasClaimedFunction(result.value[i].roman_numeral, result.value[i].function)
    /\ (Analysed /\ key = <<"C">> /\ chord_symbols = << <<"D", "m">> >>) =>
           /\ result.value[1].roman_numeral = <<"i", "i">>
           /\ result.value[1].function = "S"

\* C2: analyze_chord_progression(["Dm7", "G7", "CM7"], "C") returns three
\* records whose functions are Subdominant, Dominant, Tonic.
C2_DemoFunctions ==
    (op = "analyze_chord_progression" /\ chord_symbols = DemoChords /\ key = <<"C">>) =>
        /\ result.ok
        /\ Len(result.value) = 3
        /\ [i \in 1..3 |-> result.value[i].function] = <<"S", "D", "T">>

\* the chord-symbol grammar: an upper-case letter A-G, an optional '#' or
\* 'b', a suffix without '/', and optionally '/' and a pitch class
MatchesGrammar(s) ==
    \E n \in 1..2 :
        /\ n <= Len(s)
        /\ SubSeq(s, 1, n) \in NoteNames
        /\ \E m \in n..Len(s) :
               /\ \A i \in (n + 1)..m : s[i] # "/"
               /\ \/ m = Len(s)
                  \/ /\ s[m + 1] = "/"
                     /\ SubSeq(s, m + 2, Len(s)) \in NoteNames

\* s is blanks, a text that matches the grammar, blanks
MatchesGrammarBetweenBlanks(s) ==
    \E i \in 1..Len(s) : \E j \in i..Len(s) :
        /\ \A b \in 1..(i - 1) : IsSpace(s[b])
        /\ \A b \in (j + 1)..Len(s) : IsSpace(s[b])
        /\ MatchesGrammar(SubSeq(s, i, j))

\* C3 as claimed: parse_chord raises the invalid-chord-symbol error for every
\* input that does not match the grammar.
C3_RejectsOutsideGrammar ==
    (op = "parse_chord" /\ ~MatchesGrammar(chord_symbol)) => result = InvalidChordSymbol

\* C3 as amended: parse_chord raises the invalid-chord-symbol error, and
\* returns no Chord, for every input that does not match the grammar once the
\* blanks before and after it are removed.
C3_RejectsOutsideGrammarAfterStrip ==
    (op = "parse_chord" /\ ~MatchesGrammarBetweenBlanks(chord_symbol)) =>
        result = InvalidChordSymbol

\* "H7" was parsed and rejected
C3_Witness ==
    op = "parse_chord" /\ chord_symbol = <<"H", "7">> /\ result = InvalidChordSymbol

\* C4: the root of every Chord parse_chord returns is one of the 12 names of
\* the chromatic alphabet, and so is its bass when it has one.
C4_RootAndBassInAlphabet ==
    Parsed =>
        /\ result.value.root \in AlphabetNames
        /\ result.value.bass # None => result.value.bass \in AlphabetNames

\* C5: over the chords the parser accepted, and keys of the alphabet, the
\* analysis (numeral, function, tensions, scales), the substitution proposal
\* and the voice-leading check return a value and never raise.
C5_TotalOverParsedChords ==
    /\ (op = "analyze_chord_progression" /\ key \in AlphabetNames
            /\ \A i \in 1..Len(chord_symbols) : parse_chord(chord_symbols[i]).ok)
           => result.ok
    /\ (op = "validate_voice_leading"
            /\ \A i \in 1..Len(chord_symbols) : parse_chord(chord_symbols[i]).ok)
           => result.ok
    /\ (op = "suggest_chord_substitutions" /\ key \in AlphabetNames) => result.ok

\* the first check of an ordered list of <<substrings, quality>> checks that
\* succeeds on q, "major" when none does
RECURSIVE FirstMatch(_, _, _)
FirstMatch(checks, i, q) ==
    IF i > Len(checks) THEN "major"
    ELSE IF \E sub \in checks[i][1] : Contains(q, sub) THEN checks[i][2]
    ELSE FirstMatch(checks, i + 1, q)

\* the order of the checks as claimed
ClaimedChecks ==
    << <<{<<"m", "7">>}, "minor7">>,
       <<{<<"m">>}, "minor">>,
       <<{<<"m", "a", "j", "7">>}, "major7">>,
       <<{<<"7">>}, "dominant7">>,
       <<{<<"d", "i", "m">>}, "diminished">>,
       <<{<<"a", "u", "g">>, <<"+">>}, "augmented">>,
       <<{<<"s", "u", "s", "4">>}, "suspended4">>,
       <<{<<"s", "u", "s", "2">>}, "suspended2">> >>

\* the order of the checks as amended: bare minor after the sevenths
AmendedChecks ==
    << <<{<<"m", "7">>}, "minor7">>,
       <<{<<"m", "a", "j", "7">>}, "major7">>,
       <<{<<"7">>}, "dominant7">>,
       <<{<<"m">>}, "minor">>,
       <<{<<"d", "i", "m">>}, "diminished">>,
       <<{<<"a", "u", "g">>, <<"+">>}, "augmented">>,
       <<{<<"s", "u", "s", "4">>}, "suspended4">>,
       <<{<<"s", "u", "s", "2">>}, "suspended2">> >>

\* a suffix with its letters A-Z in lower case
LowerCased(q) ==
    [i \in 1..Len(q) |->
        IF \E k \in 1..26 : UpperChars[k] = q[i]
        THEN LowerChars[CHOOSE k \in 1..26 : UpperChars[k] = q[i]]
        ELSE q[i]]

\* C6 as claimed: the quality is the first matching check on the suffix
\* (letters compared in lower case) in the order m7, m, maj7, 7, dim, aug or
\* +, sus4, sus2, otherwise major.
C6_QualityInClaimedOrder ==
    Parsed =>
        result.value.quality =
            FirstMatch(ClaimedChecks, 1, LowerCased(QualitySuffix(chord_symbol)))

\* C6 as amended: the quality is the first matching check on the lower-cased
\* suffix in the order m7, maj7, 7, m, dim, aug or +, sus4, sus2, otherwise
\* major.
C6_QualityInAmendedOrder ==
    Parsed =>
        result.value.quality =
            FirstMatch(AmendedChecks, 1, LowerCased(QualitySuffix(chord_symbol)))

\* "Cmaj7", whose suffix contains "m", "maj7" and "7", was parsed as major7
C6_Witness ==
    /\ Parsed
    /\ chord_symbol = <<"C", "m", "a", "j", "7">>
    /\ result.value.quality = "major7"

\* C7: a symbol whose quality suffix contains "m7" parses to minor-seventh
\* and never to minor, whatever its root.
C7_MinorSeventhBeforeMinor ==
    (Parsed /\ Contains(QualitySuffix(chord_symbol), <<"m", "7">>)) =>
        result.value.quality = "minor7"

\* "Cm7" was parsed as minor7
C7_Witness ==
    Parsed /\ chord_symbol = <<"C", "m", "7">> /\ result.value.quality = "minor7"

\* the numeral the claimed rule gives a diatonic interval and a quality
ClaimedNumeral(interval, quality) ==
    IF quality \in {"minor", "minor7"} THEN LowerNumeral[interval]
    ELSE IF quality = "diminished" THEN LowerNumeral[interval] \o <<Degree>>
    ELSE UpperNumeral[interval]

\* C8: for roots and keys of the alphabet the numeral is the table entry of
\* (index(root) - index(key)) mod 12, in lower case for minor and
\* minor-seventh, in lower case with the diminished mark for diminished, in
\* upper case for every other quality.
C8_NumeralOfInterval ==
    /\ (op = "_get_roman_numeral" /\ chord_obj.root \in AlphabetNames
            /\ key \in AlphabetNames
            /\ IntervalAbove(chord_obj.root, key) \in DiatonicIntervals) =>
           result = Return(ClaimedNumeral(IntervalAbove(chord_obj.root, key),
                                          chord_obj.quality))
    /\ Analysed =>
           \A i \in 1..Len(result.value) :
               LET e == result.value[i]
               IN  IntervalAbove(e.chord.root, key) \in DiatonicIntervals =>
                       e.roman_numeral =
                           ClaimedNumeral(IntervalAbove(e.chord.root, key), e.chord.quality)

\* the numeral of B diminished in key C was computed: vii with the mark
C8_Witness ==
    /\ op = "_get_roman_numeral"
    /\ chord_obj.root = <<"B">>
    /\ chord_obj.quality = "diminished"
    /\ key = <<"C">>
    /\ result = Return(<<"v", "i", "i", Degree>>)

\* the fallback numeral as claimed, adjusted by quality
ClaimedFallback(quality) ==
    IF quality \in {"minor", "minor7"} THEN <<"b", "i", "i">>
    ELSE IF quality = "diminished" THEN <<"b", "i", "i", Degree>>
    ELSE <<"b", "I", "I">>

WidePairs ==
    {i \in 1..(Len(chord_symbols) - 1) :
        LET a == Position(parse_chord(chord_symbols[i]).value.root)
            b == Position(parse_chord(chord_symbols[i + 1]).value.root)
        IN  (IF a > b THEN a - b ELSE b - a) > 6}

\* C10: validate_voice_leading reports the pair (i, i+1) exactly when the raw
\* absolute difference of the two roots' indexes is greater than 6, and
\* is_valid is true exactly when no pair was reported, progressions of
\* length 0 and 1 included.
C10_VoiceLeadingReport ==
    /\ (op = "validate_voice_leading" /\ result.ok) =>
           /\ Len(result.value.issues) = Cardinality(WidePairs)
           /\ \A i \in 1..(Len(chord_symbols) - 1) :
                  i \in WidePairs <=>
                      \E j \in 1..Len(result.value.issues) :
                          result.value.issues[j] = <<chord_symbols[i], chord_symbols[i + 1]>>
           /\ result.value.is_valid <=> WidePairs = {}
    /\ (op = "validate_voice_leading" /\ Len(chord_symbols) <= 1) =>
           result.ok /\ result.value.is_valid /\ result.value.issues = <<>>

\* C to F#, 6 index steps apart, was checked and not reported
C10_Witness ==
    /\ op = "validate_voice_leading"
    /\ chord_symbols = << <<"C">>, <<"F", "#">> >>
    /\ result.ok
    /\ result.value.is_valid

\* C11: the voice-leading check of ["C", "Gb"] returns a valid result, no
\* issue reported.
C11_TritoneToGFlatIsValid ==
    (op = "validate_voice_leading" /\ chord_symbols = << <<"C">>, <<"G", "b">> >>) =>
        /\ result.ok
        /\ result.value.is_valid
        /\ result.value.issues = <<>>

\* some element of the progression is rejected by the parser
SomeRejected == \E i \in 1..Len(chord_symbols) : ~parse_chord(chord_symbols[i]).ok

\* C12: analyze_chord_progression fails atomically: when the parser rejects
\* any element of the progression the call raises the invalid-chord-symbol
\* error and delivers no record.
C12_RaisesInvalidChordSymbol ==
    (op = "analyze_chord_progression" /\ SomeRejected) => result = InvalidChordSymbol

\* C13: a successful analysis has one record per input symbol, in input
\* order: record i carries symbol i.
C13_OneRecordPerSymbolInOrder ==
    Analysed =>
        /\ Len(result.value) = Len(chord_symbols)
        /\ \A i \in 1..Len(chord_symbols) :
               result.value[i].chord_symbol = chord_symbols[i]

\* ["A", "G7"] was analysed into two records
C13_Witness ==
    /\ Analysed
    /\ chord_symbols = << <<"A">>, <<"G", "7">> >>
    /\ Len(result.value) = 2
    /\ result.value[2].chord_symbol = <<"G", "7">>

\* the supported quality suffixes without an accidental in front
PlainSuffixes ==
    {<<>>, <<"m">>, <<"m", "7">>, <<"m", "a", "j", "7">>, <<"7">>, <<"d", "i", "m">>,
     <<"a", "u", "g">>, <<"+">>, <<"s", "u", "s", "4">>, <<"s", "u", "s", "2">>,
     <<"9">>, <<"1", "1">>, <<"1", "3">>}

\* the tension tokens that start with an accidental
AccidentalSuffixes == {<<"#", "1", "1">>, <<"b", "1", "3">>}

SupportedSuffixes == PlainSuffixes \cup AccidentalSuffixes

\* C14 as claimed: for every root r of the alphabet and every supported
\* suffix q, parse_chord(r + q) returns a Chord whose root is r.
C14_RootOfRootPlusSuffix ==
    op = "parse_chord" =>
        \A r \in AlphabetNames : \A q \in SupportedSuffixes :
            chord_symbol = r \o q => (result.ok /\ result.value.root = r)

\* C14 as amended: the same, except for a root without accidental followed
\* by "#11" or "b13" (the accidental of the suffix is read as the root's).
C14_RootOfRootPlusPlainSuffix ==
    op = "parse_chord" =>
        \A r \in AlphabetNames : \A q \in SupportedSuffixes :
            (chord_symbol = r \o q /\ (q \in PlainSuffixes \/ Len(r) = 2)) =>
                (result.ok /\ result.value.root = r)

\* "C#b13" was parsed with root C#
C14_Witness ==
    /\ Parsed
    /\ chord_symbol = <<"C", "#", "b", "1", "3">>
    /\ result.value.root = <<"C", "#">>

\* the tension vocabulary
TensionLabels ==
    {<<"9">>, <<"1", "1">>, <<"1", "3">>, <<"#", "1", "1">>, <<"b", "1", "3">>}

\* C15: every element of the extensions of a parsed Chord is one of the
\* labels 9, 11, 13, #11, b13; no other token of the suffix is collected.
C15_ExtensionsInVocabulary ==
    Parsed =>
        \A i \in 1..Len(result.value.extensions) :
            result.value.extensions[i] \in TensionLabels

\* "C7#11" was parsed: "#11" is collected, "7" is not
C15_Witness ==
    /\ Parsed
    /\ chord_symbol = <<"C", "7", "#", "1", "1">>
    /\ result.value.extensions = << <<"#", "1", "1">> >>

\* the symbol a tritone away from a root of the alphabet, as a dominant seventh
ClaimedTritone(root) == Alphabet[((Position(root) + 6) % 12) + 1] \o <<"7">>

Reharmonized == op = "suggest_reharmonizations" /\ result.ok

\* the substitutions suggested for the chord at index i (from 1) of the
\* progression; none when the chord has no suggestion
SubstitutionsAt(i) ==
    LET suggestions == result.value.reharmonization_suggestions
        at == {s \in 1..Len(suggestions) : suggestions[s].position = i - 1}
    IN  IF at = {} THEN <<>> ELSE suggestions[CHOOSE s \in at : TRUE].substitutions

\* the candidates of one type in a list of substitutions
OfType(substitutions, type) == SelectSeq(substitutions, LAMBDA c : c.type = type)

\* C16: a tritone-substitution candidate is produced only for a chord of
\* dominant-seventh quality; its symbol is the alphabet name at index
\* (root_index + 6) mod 12 followed by "7", a dominant-seventh chord; the
\* engine's suggest_chord_substitutions and the reharmonization service
\* give the same candidate for the same chord.
C16_TritoneCandidate ==
    /\ Reharmonized =>
           \A i \in 1..Len(chord_symbols) :
               \A c \in 1..Len(OfType(SubstitutionsAt(i), "tritone_substitution")) :
                   LET chord == parse_chord(chord_symbols[i]).value
                       candidate == OfType(SubstitutionsAt(i), "tritone_substitution")[c]
                   IN  /\ chord.quality = "dominant7"
                       /\ chord.root \in AlphabetNames
                       /\ candidate.chord = ClaimedTritone(chord.root)
                       /\ parse_chord(candidate.chord).value.quality = "dominant7"
    /\ (op = "_get_chord_substitutions" /\ result.ok) =>
           /\ Len(OfType(result.value, "tritone_substitution")) =
                  IF chord_obj.quality = "dominant7" THEN 1 ELSE 0
           /\ \A c \in 1..Len(OfType(result.value, "tritone_substitution")) :
                  /\ chord_obj.root \in AlphabetNames
                  /\ OfType(result.value, "tritone_substitution")[c].chord
                         = ClaimedTritone(chord_obj.root)
                  /\ suggest_chord_substitutions(chord_obj, key)
                         = Return(<<OfType(result.value, "tritone_substitution")[c].chord>>)
    /\ (op = "suggest_chord_substitutions" /\ chord_obj.quality = "dominant7") =>
           /\ result.ok => result.value = <<ClaimedTritone(chord_obj.root)>>
           /\ result = IF get_tritone_substitution(chord_obj).ok
                       THEN Return(<<get_tritone_substitution(chord_obj).value>>)
                       ELSE get_tritone_substitution(chord_obj)

\* ["G7", "C"] was reharmonized: G7 has the tritone candidate C#7, C has none
C16_Witness ==
    /\ Reharmonized
    /\ chord_symbols = << <<"G", "7">>, <<"C">> >>
    /\ OfType(SubstitutionsAt(1), "tritone_substitution")[1].chord = <<"C", "#", "7">>
    /\ OfType(SubstitutionsAt(2), "tritone_substitution") = <<>>

\* C17: tritone substitution is an involution on roots: for a dominant-
\* seventh chord whose root r is in the alphabet the substitute is computed,
\* and parsing it and substituting again gives a chord whose root is r.
C17_TritoneInvolution ==
    /\ (op = "_get_tritone_substitution" /\ chord_obj.root \in AlphabetNames) => result.ok
    /\ op = "substitute_again" =>
           /\ chord_obj.quality = "dominant7"
           /\ chord_obj.root \in AlphabetNames
           /\ result.ok
           /\ parse_chord(result.value.again).ok
           /\ parse_chord(result.value.again).value.root = chord_obj.root

\* the substitute of a dominant seventh on G (C#7) was substituted again: G7
C17_Witness ==
    /\ op = "substitute_again"
    /\ chord_obj.root = <<"G">>
    /\ result.ok
    /\ result.value.substitute = <<"C", "#", "7">>
    /\ result.value.again = <<"G", "7">>

\* every symbol of the progression is accepted by the parser
AllParsed == \A i \in 1..Len(chord_symbols) : parse_chord(chord_symbols[i]).ok

\* the quality of the chord at index i (from 1) of the progression
QualityAt(i) == parse_chord(chord_symbols[i]).value.quality

\* the root of the chord at index i (from 1) of the progression
RootAt(i) == parse_chord(chord_symbols[i]).value.root

\* C18: reharmonizing a progression of n chords produces a secondary-
\* dominant candidate for the chord at position i exactly when its quality
\* is major or minor and it is not the last chord; the candidate's symbol is
\* the alphabet name at index (root_index + 7) mod 12 followed by "7" and
\* its explanation names the chord's root.
C18_SecondaryDominantCandidate ==
    (op = "suggest_reharmonizations" /\ AllParsed) =>
        /\ result.ok
        /\ \A i \in 1..Len(chord_symbols) :
               LET candidates == OfType(SubstitutionsAt(i), "secondary_dominant")
               IN  IF QualityAt(i) \in {"major", "minor"} /\ i < Len(chord_symbols)
                   THEN /\ Len(candidates) = 1
                        /\ candidates[1].chord =
                               Alphabet[((Position(RootAt(i)) + 7) % 12) + 1] \o <<"7">>
                        /\ candidates[1].explanation.names = RootAt(i)
                   ELSE candidates = <<>>

\* the candidate types the rules give a chord of a quality at index i (from
\* 1) of n chords
ClaimedTypes(quality, i, n) ==
    (IF quality = "dominant7" THEN {"tritone_substitution"} ELSE {})
    \cup (IF quality = "major" THEN {"modal_borrowing"} ELSE {})
    \cup (IF quality \in {"major", "minor"} /\ i < n THEN {"secondary_dominant"} ELSE {})

\* C19: the rules are applied independently: for every chord and position
\* of a reharmonized progression the set of candidate types returned is
\* exactly {tritone_substitution if dominant seventh} union {modal_borrowing
\* if plain major} union {secondary_dominant if major or minor and not
\* last}; the modal-borrowing candidate is the same root with "m".
C19_CandidateTypes ==
    (op = "suggest_reharmonizations" /\ AllParsed) =>
        /\ result.ok
        /\ \A i \in 1..Len(chord_symbols) :
               /\ {SubstitutionsAt(i)[c].type : c \in 1..Len(SubstitutionsAt(i))}
                      = ClaimedTypes(QualityAt(i), i, Len(chord_symbols))
               /\ \A c \in 1..Len(OfType(SubstitutionsAt(i), "modal_borrowing")) :
                      OfType(SubstitutionsAt(i), "modal_borrowing")[c].chord
                          = RootAt(i) \o <<"m">>

\* the qualities that have an entry in tensions_map
TensionTableQualities == {"major7", "minor7", "dominant7", "half_diminished"}

\* the qualities that have an entry in scale_recommendations
ScaleTableQualities == {"major7", "minor7", "dominant7", "half_diminished"}

\* C20: a quality without entry in the tension table has no available
\* tensions; a quality without entry in the scale table has the recommended
\* scales ["chromatic"]; the recommended scales of every analysed chord are
\* non-empty and their first element is the primary scale the improvisation
\* guide reports for the chord.
C20_TableFallbacks ==
    /\ (op = "_get_available_tensions" /\ chord_obj.quality \notin TensionTableQualities) =>
           result.value = <<>>
    /\ (op = "_recommend_scales" /\ chord_obj.quality \notin ScaleTableQualities) =>
           result.value = <<"chromatic">>
    /\ (op = "get_improvisation_guide" /\ result.ok) =>
           /\ Len(result.value.chord_scale_mapping) = Len(chord_symbols)
           /\ \A i \in 1..Len(chord_symbols) :
                  LET scales_recommended ==
                          analyze_chord_progression(chord_symbols, key).value[i].scales_recommended
                  IN  /\ scales_recommended # <<>>
                      /\ result.value.chord_scale_mapping[i].primary_scale
                             = scales_recommended[1]

\* the guide of ["C", "G7"] was built: "chromatic" for C (no entry in the
\* scale table), "mixolydian" for G7
C20_Witness ==
    /\ op = "get_improvisation_guide"
    /\ result.ok
    /\ chord_symbols = << <<"C">>, <<"G", "7">> >>
    /\ result.value.chord_scale_mapping[1].primary_scale = "chromatic"
    /\ result.value.chord_scale_mapping[2].primary_scale = "mixolydian"


\* C21: the analysis of a chord does not depend on the other chords of the
\* progression: record i of the analysis of a progression in a key has the
\* roman numeral and the function of the single record of the analysis of
\* the one-chord progression [chord_symbols[i]] in the same key.
C21_RecordIndependentOfNeighbours ==
    Analysed =>
        \A i \in 1..Len(chord_symbols) :
            LET alone == analyze_chord_progression(<<chord_symbols[i]>>, key)
            IN  /\ alone.ok
                /\ Len(alone.value) = 1
                /\ result.value[i].roman_numeral = alone.value[1].roman_numeral
                /\ result.value[i].function = alone.value[1].function

\* ["C", "G7"] was analysed in C: "I" and "V", as each chord alone
C21_Witness ==
    /\ Analysed
    /\ chord_symbols = << <<"C">>, <<"G", "7">> >>
    /\ key = <<"C">>
    /\ result.value[1].roman_numeral = <<"I">>
    /\ result.value[2].roman_numeral = <<"V">>

\* C22: no operation of the engine writes the lookup tables: after any
\* sequence of calls, returning or raising, the alphabet, the function table
\* and the mode table have their construction values, and the result of the
\* last call is the one the operation gives on these tables.
C22_TablesNeverWritten ==
    /\ EngineInit
    /\ op = "parse_chord" => result = parse_chord(chord_symbol)
    /\ op = "analyze_chord_progression" =>
           result = analyze_chord_progression(chord_symbols, key)
    /\ op = "validate_voice_leading" => result = validate_voice_leading(chord_symbols)
    /\ op = "suggest_chord_substitutions" =>
           result = suggest_chord_substitutions(parse_chord(chord_symbol).value, key)

\* parse_chord("Db") returned a chord whose root the alphabet does not hold,
\* and the alphabet still has its twelve names
C22_Witness ==
    /\ Parsed
    /\ chord_symbol = <<"D", "b">>
    /\ ~Index(chromatic_notes, result.value.root).ok
    /\ Len(chromatic_notes) = 12


\* C25: a chord whose quality suffix is "dim" is classified as diminished, and
\* its roman numeral in an analysis is lower-case and ends with the diminished
\* mark; "Bdim" analysed in key C has the numeral "vii" with the mark and the
\* function Dominant.
C25_DimIsDiminished ==
    /\ (Parsed /\ \E r \in NoteNames : chord_symbol = r \o <<"d", "i", "m">>) =>
           result.value.quality = "diminished"
    /\ (Analysed /\ \E r \in NoteNames : chord_symbols = <<r \o <<"d", "i", "m">> >>) =>
           LET roman_numeral == result.value[1].roman_numeral
           IN  /\ result.value[1].chord.quality = "diminished"
               /\ roman_numeral # <<>>
               /\ roman_numeral[Len(roman_numeral)] = Degree
               /\ \A j \in 1..(Len(roman_numeral) - 1) : roman_numeral[j] \in {"i", "v", "b"}
    /\ (Analysed /\ chord_symbols = << <<"B", "d", "i", "m">> >> /\ key = <<"C">>) =>
           /\ result.value[1].roman_numeral = <<"v", "i", "i", Degree>>
           /\ result.value[1].function = "D"

\* C26: the quality suffixes "maj7" and "M7" are classified as major-seventh
\* for every root; "CM7" analysed in key C has the upper-case numeral "I", the
\* major-seventh tensions and the scales ionian, lydian.
C26_CapitalMSevenIsMajorSeventh ==
    /\ (Parsed /\ \E r \in NoteNames :
                      chord_symbol \in {r \o <<"M", "7">>, r \o <<"m", "a", "j", "7">>}) =>
           result.value.quality = "major7"
    /\ (Analysed /\ chord_symbols = << <<"C", "M", "7">> >> /\ key = <<"C">>) =>
           /\ result.value[1].roman_numeral = <<"I">>
           /\ result.value[1].tensions_available = <<"9", "11", "13">>
           /\ result.value[1].scales_recommended = <<"ionian", "lydian">>


\* the progression with the dominant seventh a fifth above the root of every
\* non-first chord of major or minor quality put before that chord, from
\* index i (from 1) on
RECURSIVE WithClaimedDominantsFrom(_)
WithClaimedDominantsFrom(i) ==
    IF i > Len(chord_symbols) THEN <<>>
    ELSE <<chord_symbols[i]>>
         \o (IF i < Len(chord_symbols) /\ QualityAt(i + 1) \in {"major", "minor"}
             THEN << Alphabet[((Position(RootAt(i + 1)) + 7) % 12) + 1] \o <<"7">> >>
             ELSE <<>>)
         \o WithClaimedDominantsFrom(i + 1)

\* C28: _add_secondary_dominants only inserts: for every parseable
\* progression of n chords its output holds the original chords in order,
\* with exactly one chord inserted after the chord at position i < n - 1
\* when chord i + 1 is major or minor, the dominant seventh whose root is 7
\* semitones above the root of chord i + 1, and nothing inserted otherwise;
\* its length is n plus the number of non-first major or minor chords.
C28_OnlyInsertsSecondaryDominants ==
    (op = "_add_secondary_dominants" /\ AllParsed) =>
        /\ result.ok
        /\ result.value = WithClaimedDominantsFrom(1)
        /\ Len(result.value) =
               Len(chord_symbols)
               + Cardinality({i \in 2..Len(chord_symbols) : QualityAt(i) \in {"major", "minor"}})

\* the same for the progressions whose non-first chords have roots of the
\* alphabet
OnlyInsertsForAlphabetRoots ==
    (/\ op = "_add_secondary_dominants"
     /\ AllParsed
     /\ \A i \in 2..Len(chord_symbols) : RootAt(i) \in AlphabetNames) =>
        /\ result.ok
        /\ result.value = WithClaimedDominantsFrom(1)
        /\ Len(result.value) =
               Len(chord_symbols)
               + Cardinality({i \in 2..Len(chord_symbols) : QualityAt(i) \in {"major", "minor"}})

\* C23: re-parsing is idempotent on root and quality: the symbol obtained by
\* serialising a parsed chord as its root followed by its quality, as
\* _get_inversions writes it, parses to a chord with the same root and the
\* same quality.
C23_ReparseKeepsRootAndQuality ==
    op = "reparse_inversion" =>
        /\ result.value.reparsed.ok
        /\ result.value.reparsed.value.root = result.value.chord.root
        /\ result.value.reparsed.value.quality = result.value.chord.quality

\* the endpoints that take a progression
ProgressionEndpoints ==
    {"POST /api/v1/analyze/progression",
     "POST /api/v1/reharmonize",
     "POST /api/v1/improvisation/guide"}

\* C24: a request of the progression-analysis, chord-analysis,
\* reharmonization or improvisation endpoint that holds a chord symbol the
\* parser rejects is answered with status 400, never with a success or a
\* server fault.
C24_RejectedSymbolIsClientError ==
    /\ (/\ op \in ProgressionEndpoints
        /\ \E i \in 1..Len(chord_symbols) : ~parse_chord(chord_symbols[i]).ok) =>
           /\ result.ok
           /\ result.value.status_code = 400
           /\ ~result.value.success
    /\ (op = "POST /api/v1/analyze/chord" /\ ~parse_chord(chord_symbol).ok) =>
           /\ result.ok
           /\ result.value.status_code = 400
           /\ ~result.value.success

\* C27: process_chat_message raises nothing: every chord of chords_mentioned
\* is accepted by parse_chord, and when the analysis of the mentioned chords
\* fails the reply has the type "clarification_needed".
C27_ChatParsesDefensively ==
    op = "process_chat_message" =>
        /\ result.ok
        /\ \A i \in 1..Len(result.value.intent.chords_mentioned) :
               parse_chord(result.value.intent.chords_mentioned[i]).ok
        /\ (/\ result.value.intent.type = "harmony_analysis"
            /\ result.value.intent.chords_mentioned # <<>>
            /\ ~analyze_progression(result.value.intent.chords_mentioned, <<"C">>,
                                    DefaultContext).ok) =>
               result.value.reply.type = "clarification_needed"

\* the exercise an answer is corrected against: the one given with the
\* request, or the first one of the knowledge base for the type and level
ExerciseCorrected ==
    IF exercise_data # NoData THEN <<create_exercise_from_data(exercise_data)>>
    ELSE get_exercise_template(exercise_type, level)

\* the harmonic functions, in key C, of the chords of a progression written
\* with "-" between its chords
FunctionsWritten(progression) ==
    analyze_chord_progression(extract_chords_from_field(progression), <<"C">>)

\* the chords of the answer all parse and have, one by one, the harmonic
\* functions of the chords of the solution
SameFunctionsAsSolution ==
    /\ ExerciseCorrected # <<>>
    /\ ExerciseCorrected[1].category = "rearmonizacao"
    /\ FunctionsWritten(user_answer).ok
    /\ FunctionsWritten(ExerciseCorrected[1].solution).ok
    /\ FunctionsOf(FunctionsWritten(user_answer).value)
           = FunctionsOf(FunctionsWritten(ExerciseCorrected[1].solution).value)

\* C29: in correct_exercise for the category "rearmonizacao", an answer whose
\* chords all parse and whose harmonic functions, chord by chord, equal those
\* of the solution's chords is graded is_correct with score 100, also when
\* its chord symbols differ from the solution's.
C29_SameFunctionsGradedCorrect ==
    (op = "correct_exercise" /\ SameFunctionsAsSolution) =>
        /\ result.ok
        /\ result.value.is_correct
        /\ result.value.score = 100

\* the level names suggest_exercises_for_level supports
SupportedLevelNames ==
    {<<"b", "a_acute", "s", "i", "c", "o">>,
     <<"i", "n", "t", "e", "r", "m", "e", "d", "i", "a_acute", "r", "i", "o">>,
     <<"a", "v", "a", "n", "c_cedilla", "a", "d", "o">>}

\* C30: for each of the level names basico, intermediario and avancado
\* suggest_exercises_for_level returns at least one suggestion, and every
\* suggestion it returns is for a category that has an exercise at that level
\* in the knowledge base.
C30_EverySupportedLevelServed ==
    (op = "suggest_exercises_for_level" /\ user_level \in SupportedLevelNames) =>
        /\ result.ok
        /\ Len(result.value) >= 1
        /\ \A i \in 1..Len(result.value) :
               get_exercise_by_level(LevelNumber(user_level), result.value[i].category)
                   # <<>>

====
